---- MODULE Spec2Model ----
(***************************************************************************)
(* Model of the Pica MCP server (picahq/mcp): the lazy, promise-guarded    *)
(* initialization in index.ts, the PicaClient caches and paged fetches,    *)
(* the tool handlers with their access-control checks, and the passthrough *)
(* request construction of PicaClient.executePassthroughRequest.           *)
(***************************************************************************)
EXTENDS Integers, Sequences, FiniteSets, TLC

\* ------------------------------------------------------------------ bounds
\* number of tool invocations the transport delivers
MaxInv == 2
\* number of direct PicaClient.initialize()/refresh() calls of a library user
MaxApiCalls == 1
\* rows the upstream holds for /v1/vault/connections (two pages)
UpConnTotal == 101
\* rows the upstream holds for /v1/available-connectors (one page)
UpDefTotal == 3
\* requests after which the stand-alone pagination run is cut off
MaxPgRequests == 4

\* -------------------------------------------------------- program constants
\* paginateResults(fetchFn, limit = 100)
DefaultLimit == 100
\* let initializationPromise: Promise<void> | null = null
null == 0
REDACTED == "***REDACTED***"
\* const PICA_BASE_URL = process.env.PICA_BASE_URL || "https://api.picaos.com"
BaseUrl == "https://api.picaos.com"

Min(a, b) == IF a < b THEN a ELSE b
Range(s) == {s[k] : k \in 1..Len(s)}

VARIABLES
  cfg,                    \* process configuration read once from the environment
  picaInitialized,        \* index.ts: let picaInitialized
  initializationPromise,  \* index.ts: let initializationPromise (null or a promise id)
  promises,               \* state of every promise initializePica created
  isInitialized,          \* PicaClient.isInitialized
  connections,            \* PicaClient.connections
  connectors,             \* PicaClient.connectors
  ops,                    \* initialize()/refresh() operations started so far
  inv,                    \* tool invocations
  pg,                     \* a stand-alone paginateResults run
  fn                      \* a stand-alone call of an exported helper function

vars == <<cfg, picaInitialized, initializationPromise, promises, isInitialized,
          connections, connectors, ops, inv, pg, fn>>

\* ------------------------------------------------------------ event loop
\* both fetches of operation o have settled and the code after
\* `await Promise.allSettled(...)` has not run yet
settleDue(o) ==
  ~ops[o].settled /\ ops[o].conn.st # "run" /\ ops[o].defs.st # "run"

\* a continuation is queued: code after an await whose promise has settled.
\* Node runs queued continuations before it delivers the next I/O event, so
\* requests, responses and calls arrive only when none is queued.
continuationPending ==
  \/ \E o \in 1..Len(ops) : settleDue(o)
  \/ \E i \in 1..MaxInv :
       \/ inv[i].pc = "ready"
       \/ inv[i].pc = "awaitInit" /\ promises[inv[i].awaiting] # "pending"

\* ------------------------------------------------------- pagination engine
\* state of paginateResults before its first request
paginateInit(limit) ==
  [skip |-> 0, allResults |-> <<>>, total |-> 0, limit |-> limit]

\* a loop body that advances skip by the rows it received
paginateBodySkipByRows(s, rows, totalCount) ==
  [s EXCEPT !.total = totalCount,
            !.allResults = s.allResults \o rows,
            !.skip = s.skip + Len(rows)]

\* one iteration of the do-while body, given the page the fetchFn returned
paginateBody(s, rows, totalCount) ==
  [s EXCEPT !.total = totalCount,
            !.allResults = s.allResults \o rows,
            !.skip = s.skip + s.limit]

\* a loop condition that is off by one
paginateContinueInclusive(s) == Len(s.allResults) <= s.total

\* the loop condition: while (allResults.length < total)
paginateContinue(s) == Len(s.allResults) < s.total

\* an upstream that answers a page request truthfully from a fixed data set
honestPage(data, skip, limit) ==
  [rows |-> SubSeq(data, skip + 1, Min(skip + limit, Len(data))),
   total |-> Len(data)]

\* ----------------------------------------------------------- upstream data
\* connection rows are identified by their index; attributes are functions of it
ConnKey(r) == IF r = 1 THEN "k1" ELSE IF r = 2 THEN "k2" ELSE "k3"
ConnPlatform(r) == IF r = 1 THEN "gmail" ELSE IF r = 2 THEN "slack" ELSE "github"
ConnActive(r) == r # 2

\* the rows lo..hi in order
seqOf(lo, hi) == [k \in 1..(hi - lo + 1) |-> lo + k - 1]

\* String.prototype.join(","): the keys with a separator between neighbours
RECURSIVE join(_)
join(keys) ==
  IF Len(keys) = 0 THEN <<>>
  ELSE IF Len(keys) = 1 THEN <<keys[1]>>
  ELSE <<keys[1], ",">> \o join(Tail(keys))

\* the keys a comma-joined key parameter names
keysOf(param) == {param[k] : k \in {j \in 1..Len(param) : param[j] # ","}}

\* rows the connections endpoint holds for a request's key parameter
upstreamConnections(params) ==
  IF params.hasKey
    THEN SelectSeq(seqOf(1, UpConnTotal), LAMBDA r : ConnKey(r) \in keysOf(params.key))
    ELSE seqOf(1, UpConnTotal)

\* catalog rows, likewise identified by their index
DefPlatform(r) == IF r = 1 THEN "gmail" ELSE IF r = 2 THEN "slack" ELSE "github"
DefActive(r) == r # 3
DefDeprecated(r) == r = 2

upstreamConnectors == seqOf(1, UpDefTotal)

\* ------------------------------------------------------------ environment
\* String.prototype.trim()
RECURSIVE trim(_)
trim(cs) ==
  IF Len(cs) = 0 THEN cs
  ELSE IF Head(cs) = " " THEN trim(Tail(cs))
  ELSE IF cs[Len(cs)] = " " THEN trim(SubSeq(cs, 1, Len(cs) - 1))
  ELSE cs

\* a comma-separated environment value is a sequence of tokens: a key or an
\* id, "," or " "; an unset variable is undefined
unsetEnv == [set |-> FALSE, s |-> <<>>]

\* String.prototype.split(","): the pieces between the separators
RECURSIVE split(_)
split(tokens) ==
  IF \A k \in 1..Len(tokens) : tokens[k] # "," THEN <<tokens>>
  ELSE LET c == CHOOSE k \in 1..Len(tokens) :
                  tokens[k] = "," /\ \A j \in 1..(k - 1) : tokens[j] # ","
       IN <<SubSeq(tokens, 1, c - 1)>> \o split(SubSeq(tokens, c + 1, Len(tokens)))

\* process.env.X ? process.env.X.split(",").map(s => s.trim()).filter(Boolean) : ["*"]
envList(env) ==
  IF env.set /\ Len(env.s) > 0
    THEN LET pieces == split(env.s)
             kept == SelectSeq([k \in 1..Len(pieces) |-> trim(pieces[k])],
                               LAMBDA piece : Len(piece) > 0)
         IN [k \in 1..Len(kept) |-> kept[k][1]]
    ELSE <<"*">>

PICA_CONNECTION_KEYS(env) == envList(env)
PICA_ACTION_IDS(env) == envList(env)

\* process.env.PICA_KNOWLEDGE_AGENT === "true"
PICA_KNOWLEDGE_AGENT(env) == env.set /\ env.s = <<"true">>

\* ------------------------------------------------------ PicaClient fetches
\* additionalParams of fetchConnections (identity scoping is not configured)
connectionParams(keys) ==
  IF keys.present /\ "*" \notin Range(keys.list)
    THEN [hasKey |-> TRUE, key |-> join(keys.list)]
    ELSE [hasKey |-> FALSE, key |-> <<>>]

\* a fetchConnections without the short-circuit for an empty key list
connectionsNeverShortCircuit(keys) == FALSE

\* fetchConnections short-circuits when the key list is present, has no "*" and is empty
connectionsShortCircuit(keys) ==
  keys.present /\ "*" \notin Range(keys.list) /\ Len(keys.list) = 0

\* a paged fetch with its first request in flight
fetchStarted(params) ==
  [st |-> "run", p |-> paginateInit(DefaultLimit), params |-> params,
   reqs |-> <<0>>]

\* a fetch that returned without any request (st is "ok" for the short-circuit
\* of fetchConnections, "skip" when initialize() returned at its first line)
fetchSkipped(st) ==
  [st |-> st, p |-> paginateInit(DefaultLimit),
   params |-> [hasKey |-> FALSE, key |-> <<>>], reqs |-> <<>>]

\* the synchronous part of fetchConnections() and fetchConnectionDefinitions(),
\* as Promise.allSettled([...]) starts them
startFetches(kind, origin, promise) ==
  /\ ops' = Append(ops,
       [kind |-> kind, origin |-> origin, promise |-> promise, settled |-> FALSE,
        outcome |-> "pending", afterInit |-> isInitialized,
        conn |-> IF connectionsShortCircuit(cfg.connectionKeys)
                   THEN fetchSkipped("ok")
                   ELSE fetchStarted(connectionParams(cfg.connectionKeys)),
        defs |-> fetchStarted([hasKey |-> FALSE, key |-> <<>>])])
  /\ connections' = IF connectionsShortCircuit(cfg.connectionKeys)
                      THEN <<>> ELSE connections

data(side, params) ==
  IF side = "conn" THEN upstreamConnections(params) ELSE upstreamConnectors

\* the page response of fetch `side` of operation o arrives: the loop body
\* runs, then either the next request leaves or the cache is assigned
FetchPage(o, side) ==
  /\ ~continuationPending
  /\ o \in 1..Len(ops)
  /\ ops[o][side].st = "run"
  /\ LET f == ops[o][side]
         resp == honestPage(data(side, f.params), f.p.skip, f.p.limit)
         p2 == paginateBody(f.p, resp.rows, resp.total)
     IN IF paginateContinue(p2)
          THEN /\ ops' = [ops EXCEPT ![o][side] =
                            [f EXCEPT !.p = p2, !.reqs = Append(f.reqs, p2.skip)]]
               /\ UNCHANGED <<connections, connectors>>
          ELSE /\ ops' = [ops EXCEPT ![o][side] = [f EXCEPT !.p = p2, !.st = "ok"]]
               /\ IF side = "conn"
                    THEN connections' = p2.allResults /\ UNCHANGED connectors
                    ELSE connectors' = p2.allResults /\ UNCHANGED connections
  /\ UNCHANGED <<fn, cfg, picaInitialized, initializationPromise, promises,
                 isInitialized, inv, pg>>

\* a best-effort fetch that keeps the rows of the pages before the failure
cacheKeepsPartialRows(f) == f.p.allResults

\* what the catch block of a fetch assigns to its cache: this.connections = []
cacheOnFailure(f) == <<>>

\* a catch block that leaves the cache as it was
cacheKeptAfterFailure(cached, f) == cached

\* the catch block of a fetch, run on a cache that holds `cached`: the
\* assignment replaces what was cached
cacheAfterFailure(cached, f) == cacheOnFailure(f)

\* the page request of fetch `side` of operation o fails: paginateResults
\* rethrows, the fetch's catch block empties the cache and rethrows
FetchPageFail(o, side) ==
  /\ ~continuationPending
  /\ o \in 1..Len(ops)
  /\ ops[o][side].st = "run"
  /\ ops' = [ops EXCEPT ![o][side].st = "fail"]
  /\ IF side = "conn"
       THEN /\ connections' = cacheAfterFailure(connections, ops[o][side])
            /\ UNCHANGED connectors
       ELSE /\ connectors' = cacheAfterFailure(connectors, ops[o][side])
            /\ UNCHANGED connections
  /\ UNCHANGED <<fn, cfg, picaInitialized, initializationPromise, promises,
                 isInitialized, inv, pg>>

\* an initialize() without its isInitialized guard
initializeAlways(origin, promise) == startFetches("init", origin, promise)

\* PicaClient.initialize() up to its first await: a no-op once initialized,
\* otherwise both fetches start
initialize(origin, promise) ==
  IF isInitialized
    THEN /\ ops' = Append(ops,
              [kind |-> "init", origin |-> origin, promise |-> promise,
               settled |-> FALSE, outcome |-> "pending", afterInit |-> TRUE,
               conn |-> fetchSkipped("skip"), defs |-> fetchSkipped("skip")])
         /\ UNCHANGED connections
    ELSE startFetches("init", origin, promise)

\* an initialize() that throws when both fetches failed
initializeThrowsOnTotalFailure(op) ==
  IF op.conn.st = "fail" /\ op.defs.st = "fail" THEN "rejected" ELSE "fulfilled"

\* how the promise of initialize() settles once both fetches have settled:
\* Promise.allSettled never rejects and nothing after it throws
initializeOutcome(op) == "fulfilled"

\* a refresh built on Promise.all: the first failed fetch rejects it
refreshRejectsOnFailure(op) ==
  IF op.conn.st = "fail" \/ op.defs.st = "fail" THEN "rejected" ELSE "fulfilled"

\* refresh() awaits Promise.allSettled of the two fetches and returns
refreshOutcome(op) == "fulfilled"

\* Promise.allSettled resolves: the rest of initialize() / refresh() runs and,
\* for an initialization started by initializePica, the rest of its async body
Settle(o) ==
  /\ o \in 1..Len(ops)
  /\ settleDue(o)
  /\ ops' = [ops EXCEPT ![o].settled = TRUE,
                        ![o].outcome = IF ops[o].kind = "refresh"
                                         THEN refreshOutcome(ops[o])
                                         ELSE initializeOutcome(ops[o])]
  /\ IF ops[o].kind = "init" /\ ops[o].conn.st # "skip"
       THEN /\ connections' = IF ops[o].conn.st = "fail" THEN <<>> ELSE connections
            /\ connectors' = IF ops[o].defs.st = "fail" THEN <<>> ELSE connectors
            /\ isInitialized' = TRUE
       ELSE UNCHANGED <<connections, connectors, isInitialized>>
  /\ IF ops[o].origin = "pica"
       THEN IF initializeOutcome(ops[o]) = "fulfilled"
              THEN /\ picaInitialized' = TRUE
                   /\ promises' = [promises EXCEPT ![ops[o].promise] = "fulfilled"]
                   /\ UNCHANGED initializationPromise
              ELSE /\ initializationPromise' = null
                   /\ promises' = [promises EXCEPT ![ops[o].promise] = "rejected"]
                   /\ UNCHANGED picaInitialized
       ELSE UNCHANGED <<picaInitialized, initializationPromise, promises>>
  /\ UNCHANGED <<fn, cfg, inv, pg>>

\* ---------------------------------------------------------- access control
\* String.prototype.toUpperCase() on the method spellings that occur
toUpperCase(m) ==
  CASE m \in {"GET", "get", "Get"} -> "GET"
    [] m \in {"POST", "post", "Post"} -> "POST"
    [] m \in {"PUT", "put"} -> "PUT"
    [] m \in {"PATCH", "patch"} -> "PATCH"
    [] m \in {"DELETE", "delete", "Delete"} -> "DELETE"
    [] m \in {"HEAD", "head"} -> "HEAD"
    [] OTHER -> m

\* String.prototype.toLowerCase() on the same spellings
toLowerCase(m) ==
  CASE m \in {"GET", "get", "Get"} -> "get"
    [] m \in {"POST", "post", "Post"} -> "post"
    [] m \in {"PUT", "put"} -> "put"
    [] m \in {"PATCH", "patch"} -> "patch"
    [] m \in {"DELETE", "delete", "Delete"} -> "delete"
    [] m \in {"HEAD", "head"} -> "head"
    [] OTHER -> m

\* a method check that compares the spelling as it is
isMethodAllowedCaseSensitive(method, level) ==
  \/ level = "admin"
  \/ level = "read" /\ method = "GET"
  \/ level = "write" /\ method \in {"GET", "POST", "PUT", "PATCH"}

\* helpers.isMethodAllowed: admin allows all, read GET, write GET/POST/PUT/PATCH
isMethodAllowed(method, level) ==
  \/ level = "admin"
  \/ level = "read" /\ toUpperCase(method) = "GET"
  \/ level = "write" /\ toUpperCase(method) \in {"GET", "POST", "PUT", "PATCH"}

\* helpers.filterByPermissions: the actions whose method the level allows
filterByPermissions(actions, level) ==
  SelectSeq(actions, LAMBDA a : isMethodAllowed(a.method, level))

\* an allowlist check without the wildcard
isActionAllowedNoWildcard(actionId, allowlist) == actionId \in Range(allowlist)

\* helpers.isActionAllowed: the allowlist has "*" or the id itself
isActionAllowed(actionId, allowlist) ==
  "*" \in Range(allowlist) \/ actionId \in Range(allowlist)

\* ------------------------------------------------- path-template resolver
\* strings that are taken apart are sequences of one-character strings
Unreserved ==
  {"a", "b", "c", "d", "e", "f", "i", "l", "r", "s", "t", "u", "x", "y",
   "0", "1", "2", "3", "4", "5", "6", "7", "8", "9", "-", "_", "."}

\* encodeURIComponent, character by character
\* an encoding that lets braces through
RECURSIVE encodeExceptBraces(_)
encodeExceptBraces(cs) ==
  IF Len(cs) = 0 THEN <<>>
  ELSE (CASE Head(cs) \in Unreserved \cup {"{", "}"} -> <<Head(cs)>>
          [] Head(cs) = "/" -> <<"%", "2", "F">>
          [] Head(cs) = " " -> <<"%", "2", "0">>
          [] OTHER -> <<"%", "?", "?">>) \o encodeExceptBraces(Tail(cs))

RECURSIVE encodeURIComponent(_)
encodeURIComponent(cs) ==
  IF Len(cs) = 0 THEN <<>>
  ELSE (CASE Head(cs) \in Unreserved -> <<Head(cs)>>
          [] Head(cs) = "{" -> <<"%", "7", "B">>
          [] Head(cs) = "}" -> <<"%", "7", "D">>
          [] Head(cs) = "/" -> <<"%", "2", "F">>
          [] Head(cs) = " " -> <<"%", "2", "0">>
          [] OTHER -> <<"%", "?", "?">>) \o encodeURIComponent(Tail(cs))

\* length of the longest run of characters other than "}" starting at i: [^}]+
RECURSIVE runLen(_, _)
runLen(cs, i) ==
  IF i > Len(cs) \/ cs[i] = "}" THEN 0 ELSE 1 + runLen(cs, i + 1)

\* does the pattern with n braces on each side match at position i
matchAt(cs, i, n) ==
  LET r == runLen(cs, i + n)
  IN /\ i + 2 * n + r - 1 <= Len(cs)
     /\ r >= 1
     /\ \A k \in 0..(n - 1) : cs[i + k] = "{" /\ cs[i + n + r + k] = "}"

\* the values of a path variable: a string, a number, a boolean, or (for
\* callers that bypass the schema) null or undefined
stringValue(cs) == [t |-> "string", s |-> cs, n |-> 0, b |-> FALSE]
numberValue(n) == [t |-> "number", s |-> <<>>, n |-> n, b |-> FALSE]
booleanValue(b) == [t |-> "boolean", s |-> <<>>, n |-> 0, b |-> b]
nullValue == [t |-> "null", s |-> <<>>, n |-> 0, b |-> FALSE]
undefinedValue == [t |-> "undefined", s |-> <<>>, n |-> 0, b |-> FALSE]

\* Number.prototype.toString() of a non-negative integer
RECURSIVE digits(_)
digits(n) ==
  LET d == <<"0", "1", "2", "3", "4", "5", "6", "7", "8", "9">>
  IN IF n < 10 THEN <<d[n + 1]>> ELSE digits(n \div 10) \o <<d[(n % 10) + 1]>>

\* value.toString()
valueToString(v) ==
  CASE v.t = "string" -> v.s
    [] v.t = "number" -> digits(v.n)
    [] v.t = "boolean" -> IF v.b THEN <<"t", "r", "u", "e">>
                          ELSE <<"f", "a", "l", "s", "e">>

\* variables[name]: the value, or undefined
lookup(variables, name) ==
  IF name \in DOMAIN variables THEN variables[name] ELSE undefinedValue

\* a test for a missing value by truthiness: if (!value)
missingValueFalsy(v) ==
  \/ v.t \in {"undefined", "null"}
  \/ v.t = "string" /\ v.s = <<>>
  \/ v.t = "number" /\ v.n = 0
  \/ v.t = "boolean" /\ ~v.b

\* value === undefined || value === null || value === ''
missingValue(v) ==
  v.t \in {"undefined", "null"} \/ (v.t = "string" /\ v.s = <<>>)

\* String.prototype.replace(/\{..\}/g, callback) for the pattern with n braces:
\* the replaced string, or the name of the first variable without a value
RECURSIVE replaceFrom(_, _, _, _)
replaceFrom(cs, i, n, variables) ==
  IF i > Len(cs) THEN [ok |-> TRUE, s |-> <<>>, missing |-> <<>>]
  ELSE IF matchAt(cs, i, n)
    THEN LET r == runLen(cs, i + n)
             trimmedVariable == trim(SubSeq(cs, i + n, i + n + r - 1))
             value == lookup(variables, trimmedVariable)
         IN IF missingValue(value)
              THEN [ok |-> FALSE, s |-> <<>>, missing |-> trimmedVariable]
              ELSE LET rest == replaceFrom(cs, i + 2 * n + r, n, variables)
                   IN IF rest.ok
                        THEN [rest EXCEPT !.s = encodeURIComponent(valueToString(value))
                                                 \o rest.s]
                        ELSE rest
    ELSE LET rest == replaceFrom(cs, i + 1, n, variables)
         IN IF rest.ok THEN [rest EXCEPT !.s = <<cs[i]>> \o rest.s] ELSE rest

\* helpers.replacePathVariables: the double-brace pass, then the single-brace
\* pass on its result
replacePathVariables(path, variables) ==
  IF Len(path) = 0 THEN [ok |-> TRUE, s |-> path, missing |-> <<>>]
  ELSE LET first == replaceFrom(path, 1, 2, variables)
       IN IF first.ok THEN replaceFrom(first.s, 1, 1, variables) ELSE first

\* ------------------------------------------------------ upstream catalog
\* rows GET /v1/knowledge returns for _id = actionId
knowledgeRows(actionId) ==
  CASE actionId = "a1" ->
         <<[_id |-> "a1", title |-> "Get user", method |-> "GET", tags |-> <<>>,
            knowledge |-> "doc a1",
            path |-> <<"/", "u", "/", "{", "{", "i", "d", "}", "}">>]>>
    [] actionId = "a2" ->
         <<[_id |-> "a2", title |-> "Send", method |-> "POST", tags |-> <<"custom">>,
            knowledge |-> "doc a2",
            path |-> <<"s", "/", "{", "x", "}">>]>>
    [] actionId = "a3" ->
         <<[_id |-> "a3", title |-> "Drop", method |-> "delete", tags |-> <<>>,
            knowledge |-> "",
            path |-> <<"/", "d">>]>>
    [] actionId = "a4" ->
         <<[_id |-> "a4", title |-> "Find", method |-> "get", tags |-> <<"custom">>,
            knowledge |-> "doc a4",
            path |-> <<"/", "c">>]>>
    [] actionId = "a5" ->
         <<[_id |-> "a5", title |-> "First", method |-> "GET", tags |-> <<>>,
            knowledge |-> "doc a5",
            path |-> <<"/", "f">>],
           [_id |-> "a5", title |-> "Second", method |-> "PUT", tags |-> <<>>,
            knowledge |-> "doc a5, second row",
            path |-> <<"/", "g">>]>>
    [] OTHER -> <<>>

\* --------------------------------------------------- request construction
HeaderNames ==
  {"Content-Type", "content-type", "x-pica-secret", "x-pica-connection-key",
   "x-pica-action-id", "x-extra"}
FieldNames == {"a", "c", "connectionKey"}
Absent == "<absent>"
absentValue == [t |-> "absent", s |-> ""]
noHeaders == [h \in HeaderNames |-> Absent]
noFields == [f \in FieldNames |-> absentValue]
\* args.data (z.any()): undefined, an object with fields, or a primitive
undefinedData == [defined |-> FALSE, prim |-> "", fields |-> noFields]
objectData(fields) == [defined |-> TRUE, prim |-> "", fields |-> fields]
primitiveData(p) == [defined |-> TRUE, prim |-> p, fields |-> noFields]

\* object spread {...a, ...b} and Object.assign(a, b): keys of b win
spread(a, b) == [h \in DOMAIN a |-> IF b[h] # Absent THEN b[h] ELSE a[h]]
spreadFields(a, b) == [f \in DOMAIN a |-> IF b[f] # absentValue THEN b[f] ELSE a[f]]

\* PicaClient.generateHeaders
generateHeaders(secret) ==
  [noHeaders EXCEPT !["Content-Type"] = "application/json",
                    !["x-pica-secret"] = secret]

\* the requestHeaders literal of executePassthroughRequest
requestHeaders(secret, connectionKey, action, contentType, headers) ==
  spread(spread(generateHeaders(secret),
                [noHeaders EXCEPT !["x-pica-connection-key"] = connectionKey,
                                  !["x-pica-action-id"] = action._id,
                                  !["Content-Type"] = contentType]),
         headers)

\* typeof value === 'object' ? JSON.stringify(value) : String(value)
stringifyField(v) ==
  IF v = absentValue THEN v ELSE [t |-> "string", s |-> v.s]

\* FormData.getHeaders()
formDataHeaders ==
  [noHeaders EXCEPT !["content-type"] = "multipart/form-data; boundary=b"]

\* a sanitization that overwrites the secret header of the config itself
sanitizeInPlace(requestConfig) ==
  LET marked == [requestConfig EXCEPT !.headers["x-pica-secret"] = REDACTED]
  IN [config |-> marked, sanitized |-> marked]

\* the sanitizedConfig literal: a copy whose secret header is the marker; the
\* config it was computed from is returned as it is after the step
sanitize(requestConfig) ==
  [config |-> requestConfig,
   sanitized |-> [requestConfig EXCEPT
                    !.headers = spread(requestConfig.headers,
                                       [noHeaders EXCEPT !["x-pica-secret"] = REDACTED])]]

\* a comparison of the method spelling as it is
notGetCaseSensitive(method) == method # "get"

\* method?.toLowerCase() !== 'get'
notGet(method) == toLowerCase(method) # "get"

\* a body that is replaced by the connection key
replaceByConnectionKey(requestData, connectionKey) ==
  objectData([noFields EXCEPT !.connectionKey = [t |-> "string", s |-> connectionKey]])

\* { ...data, connectionKey }: the own fields of data (none for undefined or
\* a primitive), then connectionKey
mergeConnectionKey(requestData, connectionKey) ==
  objectData(spreadFields(requestData.fields,
               [noFields EXCEPT !.connectionKey = [t |-> "string", s |-> connectionKey]]))

\* executePassthroughRequest from its first line up to the axios call:
\* the config to send and its sanitized copy, or the missing path variable
buildRequest(secret, args, action) ==
  LET method == action.method
      contentType == IF args.isFormData THEN "multipart/form-data"
                     ELSE IF args.isFormUrlEncoded
                       THEN "application/x-www-form-urlencoded"
                       ELSE "application/json"
      hdrs == requestHeaders(secret, args.connectionKey, action, contentType,
                             args.headers)
      finalActionPath == IF args.pathVariables.defined
                           THEN replacePathVariables(action.path, args.pathVariables.vars)
                           ELSE [ok |-> TRUE, s |-> action.path, missing |-> <<>>]
      normalizedPath == IF Len(finalActionPath.s) > 0 /\ finalActionPath.s[1] = "/"
                          THEN finalActionPath.s
                          ELSE <<"/">> \o finalActionPath.s
      url == <<BaseUrl, "/v1/passthrough">> \o normalizedPath
      isCustomAction == "custom" \in Range(action.tags)
      requestData ==
        IF isCustomAction /\ notGet(method)
          THEN mergeConnectionKey(args.data, args.connectionKey)
          ELSE args.data
      \* the entries appended to the form: those of an object, none otherwise
      encoded == objectData([f \in FieldNames |-> stringifyField(requestData.fields[f])])
      body == IF ~notGet(method)
                THEN [enc |-> "none"] @@ undefinedData
              ELSE IF args.isFormData
                THEN [enc |-> "multipart"] @@ encoded
              ELSE IF args.isFormUrlEncoded
                THEN [enc |-> "urlencoded"] @@ encoded
              ELSE [enc |-> "json"] @@ requestData
      finalHeaders == IF notGet(method) /\ args.isFormData
                        THEN spread(hdrs, formDataHeaders) ELSE hdrs
      requestConfig == [url |-> url, method |-> method, headers |-> finalHeaders,
                        params |-> args.queryParams, data |-> body]
      s == sanitize(requestConfig)
  IN [ok |-> finalActionPath.ok, missing |-> finalActionPath.missing,
      built |-> requestConfig, requestConfig |-> s.config,
      sanitizedConfig |-> s.sanitized]

\* -------------------------------------------------------- tool invocations
noPathVariables == [defined |-> FALSE, vars |-> <<>>]

\* the arguments of a tool call, with the optional ones left out
defaultArgs ==
  [actionId |-> "a1", platform |-> "gmail", query |-> "send", agentType |-> "none",
   connectionKey |-> "k1", data |-> undefinedData, pathVariables |-> noPathVariables,
   queryParams |-> "none", headers |-> noHeaders,
   isFormData |-> FALSE, isFormUrlEncoded |-> FALSE]

idleInvocation ==
  [pc |-> "idle", tool |-> "none", args |-> defaultArgs, awaiting |-> null,
   sent |-> <<>>, details |-> <<>>, built |-> <<>>, result |-> <<>>, err |-> <<>>]

\* a server that registers the four tools whatever the mode
registersEveryTool(c) ==
  {"list_pica_integrations", "search_pica_platform_actions",
   "get_pica_action_knowledge", "execute_pica_action"}

\* the tools index.ts registers
registeredTools(c) ==
  {"list_pica_integrations", "search_pica_platform_actions",
   "get_pica_action_knowledge"}
  \cup (IF ~c.knowledgeAgent THEN {"execute_pica_action"} ELSE {})

\* a missing in-flight guard: every caller before completion starts its own
initializationNeverInFlight == FALSE

\* if (initializationPromise): an initialization is in flight (or has finished)
initializationInFlight == initializationPromise # null

\* index.ts initializePica, up to its first await, called by invocation i
initializePica(i, tool, args) ==
  LET called == [inv[i] EXCEPT !.tool = tool, !.args = args]
  IN IF picaInitialized
       THEN /\ inv' = [inv EXCEPT ![i] = [called EXCEPT !.pc = "ready"]]
            /\ UNCHANGED <<initializationPromise, promises, ops, connections>>
     ELSE IF initializationInFlight
       THEN /\ inv' = [inv EXCEPT ![i] = [called EXCEPT !.pc = "awaitInit",
                                            !.awaiting = initializationPromise]]
            /\ UNCHANGED <<initializationPromise, promises, ops, connections>>
     ELSE /\ promises' = Append(promises, "pending")
          /\ initializationPromise' = Len(promises) + 1
          /\ initialize("pica", Len(promises) + 1)
          /\ inv' = [inv EXCEPT ![i] = [called EXCEPT !.pc = "awaitInit",
                                          !.awaiting = Len(promises) + 1]]

\* the transport delivers a call of a registered tool: its callback runs
\* `await initializePica()` up to the await
Invoke(i, tool, args) ==
  /\ ~continuationPending
  /\ inv[i].pc = "idle"
  /\ \A j \in 1..(i - 1) : inv[j].pc # "idle"
  /\ tool \in registeredTools(cfg)
  /\ initializePica(i, tool, args)
  /\ UNCHANGED <<fn, cfg, picaInitialized, isInitialized, connectors, pg>>

\* McpError(InternalError, prefix + error.message) of a handler's catch block
wrapped(prefix, error) ==
  <<[code |-> "InternalError", msg |-> <<prefix>> \o error.msg, cause |-> error.code]>>

\* a callback that goes on without waiting for the promise
initializationNotAwaited(i) == TRUE

\* await initializePica(): the callback of invocation i goes on once the
\* promise it was handed has settled
initializationAwaited(i) == promises[inv[i].awaiting] # "pending"

\* `await initializePica()` returns or throws in invocation i
AwaitInitReturn(i) ==
  /\ inv[i].pc = "awaitInit"
  /\ initializationAwaited(i)
  /\ inv' = [inv EXCEPT ![i] =
       IF promises[inv[i].awaiting] = "fulfilled"
         THEN [@ EXCEPT !.pc = "ready"]
         ELSE [@ EXCEPT !.pc = "failed",
                        !.err = <<[code |-> "Error", msg |-> <<"init failed">>,
                                   cause |-> "Error"]>>]]
  /\ UNCHANGED <<fn, cfg, picaInitialized, initializationPromise, promises,
                 isInitialized, connections, connectors, ops, pg>>

\* index.ts handleGetIntegrations
\* a handler that never restricts the platforms
platformsNeverScoped(keys) == FALSE

\* !PICA_CONNECTION_KEYS.includes("*")
platformsScoped(keys) == "*" \notin Range(keys)

HandleGetIntegrations(i) ==
  /\ inv[i].pc = "ready" /\ inv[i].tool = "list_pica_integrations"
  /\ LET activeConnections == SelectSeq(connections, ConnActive)
         eligible == SelectSeq(connectors, LAMBDA d : DefActive(d) /\ ~DefDeprecated(d))
         connectedPlatforms == {ConnPlatform(activeConnections[k]) :
                                  k \in 1..Len(activeConnections)}
         activePlatforms ==
           IF platformsScoped(cfg.connectionKeys.list)
             THEN SelectSeq(eligible, LAMBDA d : DefPlatform(d) \in connectedPlatforms)
             ELSE eligible
     IN inv' = [inv EXCEPT ![i].pc = "done",
                  ![i].result = <<[connections |-> activeConnections,
                                   availablePlatforms |-> activePlatforms,
                                   connectedCount |-> Len(activeConnections),
                                   availableCount |-> Len(activePlatforms)]>>]
  /\ UNCHANGED <<fn, cfg, picaInitialized, initializationPromise, promises,
                 isInitialized, connections, connectors, ops, pg>>

\* !s?.trim()
blank(str) == str \in {"", " "}

\* an allowlist check that lets every id through
actionAlwaysPermitted(actionId) == TRUE

\* the handlers' first statement: if (!isActionAllowed(actionId, PICA_ACTION_IDS))
actionPermitted(actionId) == isActionAllowed(actionId, cfg.actionIds)

\* the lookup getActionDetails sends
detailsRequest(actionId, secret) ==
  [kind |-> "details", _id |-> actionId, headers |-> generateHeaders(secret)]

\* an executePassthroughRequest that looks the action up itself
actionAlwaysFetched(preloadedAction, actionId, secret) ==
  <<detailsRequest(actionId, secret)>>

\* preloadedAction ?? await this.getActionDetails(actionId): the lookups
\* executePassthroughRequest sends to have the action
actionLookups(preloadedAction, actionId, secret) ==
  IF preloadedAction # <<>> THEN <<>> ELSE <<detailsRequest(actionId, secret)>>

\* index.ts handleGetActionKnowledge and handleExecutePicaAction up to the
\* first await: the allowlist check, then PicaClient.getActionDetails up to
\* its axios call
HandleActionStart(i) ==
  /\ inv[i].pc = "ready"
  /\ inv[i].tool \in {"get_pica_action_knowledge", "execute_pica_action"}
  /\ LET actionId == inv[i].args.actionId
         prefix == IF inv[i].tool = "execute_pica_action"
                     THEN "Failed to execute Pica action: "
                     ELSE "Failed to retrieve action knowledge: "
     IN IF ~actionPermitted(actionId)
          THEN inv' = [inv EXCEPT ![i].pc = "failed",
                 ![i].err = wrapped(prefix,
                    [code |-> "InvalidRequest",
                     msg |-> <<"Action \"", actionId,
                               "\" is not in the allowed action list">>])]
        ELSE IF blank(actionId)
          THEN inv' = [inv EXCEPT ![i].pc = "failed",
                 ![i].err = wrapped(prefix,
                    [code |-> "Error", msg |-> <<"Action ID is required">>])]
        ELSE inv' = [inv EXCEPT ![i].pc = "awaitDetails",
               ![i].sent = Append(@, detailsRequest(actionId, cfg.secret))]
  /\ UNCHANGED <<fn, cfg, picaInitialized, initializationPromise, promises,
                 isInitialized, connections, connectors, ops, pg>>

\* what an axios call can end in: a response, an AxiosError carrying the
\* upstream status, an AxiosError without a response, or any other thrown
\* error
Outcomes == {"ok", "http", "network", "throw"}

\* an error message that quotes the secret header of the failed request
clientErrorQuotesSecret(what, outcome) ==
  [code |-> "Error", msg |-> <<what, ": ", "x-pica-secret", " ", cfg.secret>>]

\* the Error the catch block of a client method throws for a failed axios
\* call; error.response is undefined when no answer arrived
clientError(what, outcome) ==
  [code |-> "Error",
   msg |-> IF outcome = "http" THEN <<what, ": ", "500", " ", "Server Error">>
           ELSE IF outcome = "network"
             THEN <<what, ": ", "undefined", " ", "undefined">>
           ELSE <<what>>]

\* PicaClient.getActionKnowledge: the projection of the action details
actionKnowledge(action) ==
  IF action.knowledge = "" \/ action.method = ""
    THEN [knowledge |-> "No knowledge was found", method |-> "No method was found"]
    ELSE [knowledge |-> action.knowledge, method |-> action.method]

\* a permission check that lets every method through
methodAlwaysPermitted(action) == TRUE

\* getActionDetails once its axios call has settled: the first row, or the
\* Error of the catch block. The not-found Error is thrown inside the try
\* block, so the catch block replaces it by the generic one
getActionDetailsAnswer(actionId, outcome) ==
  LET actions == knowledgeRows(actionId)
  IN IF outcome # "ok"
       THEN [ok |-> FALSE, action |-> <<>>,
             err |-> <<clientError("Failed to fetch action details", outcome)>>]
     ELSE IF Len(actions) = 0
       THEN [ok |-> FALSE, action |-> <<>>,
             err |-> <<clientError("Failed to fetch action details", "throw")>>]
     ELSE [ok |-> TRUE, action |-> <<actions[1]>>, err |-> <<>>]

\* handleExecutePicaAction: if (!isMethodAllowed(actionDetails.method, PICA_PERMISSIONS))
methodPermitted(action) == isMethodAllowed(action.method, cfg.permissions)

\* the axios call of getActionDetails settles in invocation i; the rest of
\* getActionDetails runs, then the rest of the handler up to its next await
DetailsResponse(i, outcome) ==
  /\ ~continuationPending
  /\ inv[i].pc = "awaitDetails"
  /\ LET args == inv[i].args
         execute == inv[i].tool = "execute_pica_action"
         prefix == IF execute THEN "Failed to execute Pica action: "
                   ELSE "Failed to retrieve action knowledge: "
         answer == getActionDetailsAnswer(args.actionId, outcome)
         actions == answer.action
     IN IF ~answer.ok
          THEN inv' = [inv EXCEPT ![i].pc = "failed",
                 ![i].err = wrapped(prefix, answer.err[1])]
        ELSE IF ~execute
          THEN inv' = [inv EXCEPT ![i].pc = "done",
                 ![i].details = <<actions[1]>>,
                 ![i].result = <<actionKnowledge(actions[1])>>]
        ELSE IF ~methodPermitted(actions[1])
          THEN inv' = [inv EXCEPT ![i].pc = "failed",
                 ![i].details = <<actions[1]>>,
                 ![i].err = wrapped(prefix,
                    [code |-> "InvalidRequest",
                     msg |-> <<"Method \"", actions[1].method,
                               "\" is not allowed under \"", cfg.permissions,
                               "\" permission level">>])]
        ELSE LET b == buildRequest(cfg.secret, args, actions[1])
             IN IF ~b.ok
                  THEN inv' = [inv EXCEPT ![i].pc = "failed",
                         ![i].details = <<actions[1]>>,
                         ![i].err = wrapped(prefix,
                            [code |-> "Error",
                             msg |-> <<"Missing value for path variable: ">>
                                       \o b.missing])]
                  ELSE inv' = [inv EXCEPT ![i].pc = "awaitPassthrough",
                         ![i].details = <<actions[1]>>,
                         ![i].built = <<b>>,
                         ![i].sent =
                           Append(@ \o actionLookups(<<actions[1]>>, args.actionId,
                                                     cfg.secret),
                                  [kind |-> "passthrough",
                                   config |-> b.requestConfig])]
  /\ UNCHANGED <<fn, cfg, picaInitialized, initializationPromise, promises,
                 isInitialized, connections, connectors, ops, pg>>

\* the axios call of executePassthroughRequest settles in invocation i
PassthroughResponse(i, outcome) ==
  /\ ~continuationPending
  /\ inv[i].pc = "awaitPassthrough"
  /\ inv' = [inv EXCEPT ![i] =
       IF outcome = "ok"
         THEN [@ EXCEPT !.pc = "done",
                 !.result = <<[requestConfig |-> inv[i].built[1].sanitizedConfig,
                               responseData |-> "upstream body"]>>]
         ELSE [@ EXCEPT !.pc = "failed",
                 !.err = wrapped("Failed to execute Pica action: ",
                           clientError("Failed to execute passthrough request",
                                       outcome))]]
  /\ UNCHANGED <<fn, cfg, picaInitialized, initializationPromise, promises,
                 isInitialized, connections, connectors, ops, pg>>

\* index.ts handleSearchPlatformActions up to the axios call of
\* PicaClient.searchAvailableActions
HandleSearchStart(i) ==
  /\ inv[i].pc = "ready" /\ inv[i].tool = "search_pica_platform_actions"
  /\ LET args == inv[i].args
         agentType == IF cfg.knowledgeAgent THEN "knowledge" ELSE args.agentType
         isKnowledgeAgent == agentType \in {"none", "knowledge"}
     IN IF blank(args.platform)
          THEN inv' = [inv EXCEPT ![i].pc = "failed",
                 ![i].err = wrapped("Failed to search platform actions: ",
                    [code |-> "Error", msg |-> <<"Platform name is required">>])]
        ELSE IF blank(args.query)
          THEN inv' = [inv EXCEPT ![i].pc = "failed",
                 ![i].err = wrapped("Failed to search platform actions: ",
                    [code |-> "Error", msg |-> <<"Search query is required">>])]
        ELSE inv' = [inv EXCEPT ![i].pc = "awaitSearch",
               ![i].sent = Append(@, [kind |-> "search", platform |-> args.platform,
                                      query |-> args.query, limit |-> "5",
                                      agent |-> IF isKnowledgeAgent
                                                  THEN "knowledgeAgent"
                                                  ELSE "executeAgent",
                                      headers |-> generateHeaders(cfg.secret)])]
  /\ UNCHANGED <<fn, cfg, picaInitialized, initializationPromise, promises,
                 isInitialized, connections, connectors, ops, pg>>

\* an AvailableAction of the search endpoint for the catalog entry of an id
summaryOf(actionId) ==
  LET a == knowledgeRows(actionId)[1]
  IN [method |-> a.method, path |-> a.path, title |-> a.title, systemId |-> a._id]

\* result lists the search endpoint may answer with
SearchResults ==
  {<<>>, <<summaryOf("a3"), summaryOf("a1")>>,
   <<summaryOf("a2"), summaryOf("a4"), summaryOf("a1")>>}

\* the result list the server's search is answered with
serverSearchResult == <<summaryOf("a3"), summaryOf("a2")>>

\* a handler that leaves the allowlist out
allowlistSkipped(actions, allowlist) == actions

\* actions.filter(a => isActionAllowed(a.systemId, PICA_ACTION_IDS))
allowlisted(actions, allowlist) ==
  SelectSeq(actions, LAMBDA a : isActionAllowed(a.systemId, allowlist))

\* the axios call of searchAvailableActions settles in invocation i; the
\* rest of handleSearchPlatformActions runs
SearchResponse(i, outcome, found) ==
  /\ ~continuationPending
  /\ inv[i].pc = "awaitSearch"
  /\ IF outcome # "ok"
       THEN inv' = [inv EXCEPT ![i].pc = "failed",
              ![i].err = wrapped("Failed to search platform actions: ",
                 clientError("Failed to search available actions", outcome))]
       ELSE LET permitted == filterByPermissions(found, cfg.permissions)
                actions == allowlisted(permitted, cfg.actionIds)
                cleanedActions == [k \in 1..Len(actions) |->
                                     [actionId |-> actions[k].systemId,
                                      title |-> actions[k].title,
                                      method |-> actions[k].method,
                                      path |-> actions[k].path]]
            IN inv' = [inv EXCEPT ![i].pc = "done",
                 ![i].result = <<[upstream |-> found,
                                  actions |-> cleanedActions,
                                  structured |-> Len(cleanedActions) # 0,
                                  count |-> Len(cleanedActions)]>>]
  /\ UNCHANGED <<fn, cfg, picaInitialized, initializationPromise, promises,
                 isInitialized, connections, connectors, ops, pg>>

\* ------------------------------------------------- direct PicaClient calls
directCalls == Cardinality({o \in 1..Len(ops) : ops[o].origin = "direct"})

\* a user of the class calls PicaClient.initialize() itself
ApiInitialize ==
  /\ ~continuationPending
  /\ directCalls < MaxApiCalls
  /\ initialize("direct", null)
  /\ UNCHANGED <<fn, cfg, picaInitialized, initializationPromise, promises,
                 isInitialized, connectors, inv, pg>>

\* a user of the class calls PicaClient.refresh()
ApiRefresh ==
  /\ ~continuationPending
  /\ directCalls < MaxApiCalls
  /\ startFetches("refresh", "direct", null)
  /\ UNCHANGED <<fn, cfg, picaInitialized, initializationPromise, promises,
                 isInitialized, connectors, inv, pg>>

\* ------------------------------------------- a stand-alone paginateResults
\* no helper call
idleFn == [pc |-> "idle", name |-> "none", in |-> <<>>, out |-> <<>>]

idlePg ==
  [pc |-> "idle", mode |-> "honest", upTotal |-> 0, p |-> paginateInit(DefaultLimit),
   requests |-> <<>>, pages |-> <<>>, result |-> <<>>]

\* limits paginateResults is called with
PgLimits == {1, 2, DefaultLimit}
\* sizes of the data set of a truthful upstream
PgTotals == {0, 1, 2, 3, 5, 250}
\* totals and page sizes an arbitrary fetchFn reports
PgAnyTotals == {0, 1, 3}
PgAnyRows == {0, 1, 2}

\* paginateResults(fetchFn, limit) is called: the first fetchFn(0, limit) leaves
PgCall ==
  /\ pg.pc = "call"
  /\ pg' = [pg EXCEPT !.pc = "wait",
                      !.requests = <<[skip |-> pg.p.skip, limit |-> pg.p.limit]>>]
  /\ UNCHANGED <<fn, cfg, picaInitialized, initializationPromise, promises,
                 isInitialized, connections, connectors, ops, inv>>

\* fetchFn resolves with a page: the loop body runs, the loop condition is
\* evaluated, and either the next fetchFn call leaves or allResults is returned
PgPage(rows, totalCount) ==
  /\ pg.pc = "wait"
  /\ LET p2 == paginateBody(pg.p, rows, totalCount)
         seen == Append(pg.pages, [rows |-> rows, total |-> totalCount])
     IN IF paginateContinue(p2)
          THEN IF Len(pg.requests) < MaxPgRequests
                 THEN pg' = [pg EXCEPT !.p = p2, !.pages = seen,
                               !.requests = Append(@, [skip |-> p2.skip,
                                                       limit |-> p2.limit])]
                 ELSE pg' = [pg EXCEPT !.p = p2, !.pages = seen, !.pc = "cut"]
          ELSE pg' = [pg EXCEPT !.p = p2, !.pages = seen, !.pc = "done",
                        !.result = p2.allResults]
  /\ UNCHANGED <<fn, cfg, picaInitialized, initializationPromise, promises,
                 isInitialized, connections, connectors, ops, inv>>

\* the page a truthful upstream returns for the request in flight
PgHonestPage ==
  /\ pg.mode = "honest"
  /\ LET resp == honestPage(seqOf(1, pg.upTotal), pg.p.skip, pg.p.limit)
     IN PgPage(resp.rows, resp.total)

\* any page: n fresh rows (numbered by request) and any reported total
PgAnyPage(n, totalCount) ==
  /\ pg.mode = "any"
  /\ n <= pg.p.limit
  /\ PgPage([k \in 1..n |-> 1000 * Len(pg.requests) + k], totalCount)

\* fetchFn rejects: paginateResults logs and rethrows
PgFail ==
  /\ pg.pc = "wait"
  /\ pg' = [pg EXCEPT !.pc = "failed"]
  /\ UNCHANGED <<fn, cfg, picaInitialized, initializationPromise, promises,
                 isInitialized, connections, connectors, ops, inv>>

\* ------------------------------------------- stand-alone helper calls
\* the call in fn returns `value`
returns(name, value) ==
  /\ fn.pc = "call" /\ fn.name = name
  /\ fn' = [fn EXCEPT !.pc = "done", !.out = <<value>>]
  /\ UNCHANGED <<cfg, picaInitialized, initializationPromise, promises,
                 isInitialized, connections, connectors, ops, inv, pg>>

CallIsMethodAllowed ==
  returns("isMethodAllowed", isMethodAllowed(fn.in.method, fn.in.level))

CallFilterByPermissions ==
  returns("filterByPermissions", filterByPermissions(fn.in.actions, fn.in.level))

\* PicaClient.getActionDetails as one call: the check of the id, then the
\* request and what its answer is turned into
getActionDetails(actionId, outcome) ==
  IF blank(actionId)
    THEN [ok |-> FALSE, action |-> <<>>,
          err |-> <<[code |-> "Error", msg |-> <<"Action ID is required">>]>>,
          requests |-> <<>>, response |-> "none"]
    ELSE [requests |-> <<detailsRequest(actionId, cfg.secret)>>,
          response |-> outcome]
         @@ getActionDetailsAnswer(actionId, outcome)

CallGetActionDetails ==
  \E outcome \in Outcomes :
    returns("getActionDetails", getActionDetails(fn.in.actionId, outcome))

CallIsActionAllowed ==
  returns("isActionAllowed", isActionAllowed(fn.in.actionId, fn.in.allowlist))

CallReplacePathVariables ==
  returns("replacePathVariables", replacePathVariables(fn.in.path, fn.in.variables))

\* ---------------------------------------------------------- specifications
AllTools ==
  {"list_pica_integrations", "search_pica_platform_actions",
   "get_pica_action_knowledge", "execute_pica_action"}

\* the state after the module of index.ts has been evaluated
start(c) ==
  /\ cfg = c
  /\ picaInitialized = FALSE
  /\ initializationPromise = null
  /\ promises = <<>>
  /\ isInitialized = FALSE
  /\ connections = <<>>
  /\ connectors = <<>>
  /\ ops = <<>>
  /\ inv = [i \in 1..MaxInv |-> idleInvocation]
  /\ pg = idlePg
  /\ fn = idleFn

\* the page responses and the settling of initialize()/refresh() operations
FetchSteps ==
  \/ \E o \in 1..Len(ops), side \in {"conn", "defs"} : FetchPage(o, side)
  \/ \E o \in 1..Len(ops), side \in {"conn", "defs"} : FetchPageFail(o, side)
  \/ \E o \in 1..Len(ops) : Settle(o)

\* --- Spec: the server under concurrent tool invocations
ServerConfigs ==
  [secret : {"sk_1"},
   permissions : {"write"},
   actionIds : {<<"*">>, <<"a2">>},
   connectionKeys : {[present |-> TRUE, list |-> <<"*">>]},
   knowledgeAgent : {FALSE}]

\* arguments the agent passes to a tool
ToolArgs(tool) ==
  IF tool \in {"execute_pica_action", "get_pica_action_knowledge"}
    THEN {[defaultArgs EXCEPT !.actionId = a] : a \in {"a2", "a3"}}
    ELSE {defaultArgs}

Init == \E c \in ServerConfigs : start(c)

Next ==
  \/ \E i \in 1..MaxInv, tool \in AllTools : \E args \in ToolArgs(tool) :
       Invoke(i, tool, args)
  \/ FetchSteps
  \/ \E i \in 1..MaxInv : AwaitInitReturn(i)
  \/ \E i \in 1..MaxInv : HandleGetIntegrations(i)
  \/ \E i \in 1..MaxInv : HandleActionStart(i)
  \/ \E i \in 1..MaxInv, outcome \in {"ok", "http"} : DetailsResponse(i, outcome)
  \/ \E i \in 1..MaxInv, outcome \in {"ok", "http"} : PassthroughResponse(i, outcome)
  \/ \E i \in 1..MaxInv : HandleSearchStart(i)
  \/ \E i \in 1..MaxInv, outcome \in {"ok", "http"} :
       SearchResponse(i, outcome, serverSearchResult)

Spec == Init /\ [][Next]_vars

\* --- SpecLive: the server of Spec where every request of the init fetches
\* is eventually answered (with a page or an error), and the event loop
\* eventually runs the continuation of a settled await
SpecLive ==
  /\ Spec
  /\ WF_vars(FetchSteps)
  /\ \A i \in 1..MaxInv : WF_vars(AwaitInitReturn(i))

\* --- SpecClient: PicaClient used as a class, its public initialize() and
\* refresh() called at any time, next to one tool invocation of the server
ClientConfigs ==
  [secret : {"sk_1"},
   permissions : {"admin"},
   actionIds : {<<"*">>},
   connectionKeys : {[present |-> TRUE, list |-> <<"*">>]},
   knowledgeAgent : {FALSE}]

InitClient == \E c \in ClientConfigs : start(c)

\* the tool invocations that run next to the direct calls: an earlier and a
\* later one
ClientInvocations == {1, 2}

NextClient ==
  \/ \E i \in ClientInvocations : Invoke(i, "list_pica_integrations", defaultArgs)
  \/ ApiInitialize
  \/ ApiRefresh
  \/ FetchSteps
  \/ \E i \in ClientInvocations : AwaitInitReturn(i)
  \/ \E i \in ClientInvocations : HandleGetIntegrations(i)

SpecClient == InitClient /\ [][NextClient]_vars

\* --- SpecExec: one invocation of the knowledge or execute tool, over the
\* configurations and arguments that decide its checks and its request
ExecConfigs ==
  [secret : {"sk_1", "sk_2"},
   permissions : {"read", "write", "admin"},
   actionIds : {<<"*">>, <<"a1", "a3">>},
   connectionKeys : {[present |-> TRUE, list |-> <<"k1", "k2">>]},
   knowledgeAgent : {FALSE}]

CallerHeaders ==
  {noHeaders,
   [noHeaders EXCEPT !["x-extra"] = "1"],
   [noHeaders EXCEPT !["x-pica-secret"] = "spoofed", !["Content-Type"] = "text/plain"]}

CallerData ==
  {undefinedData,
   primitiveData("5"),
   objectData([noFields EXCEPT !.a = [t |-> "number", s |-> "1"]]),
   objectData([noFields EXCEPT !.a = [t |-> "object", s |-> "{\"b\":1}"],
                               !.c = [t |-> "string", s |-> "x"],
                               !.connectionKey = [t |-> "string", s |-> "mine"]])}

CallerPathVariables ==
  {noPathVariables,
   [defined |-> TRUE,
    vars |-> (<<"i", "d">> :> numberValue(0)) @@
             (<<"x">> :> stringValue(<<"a", " ", "{", "y", "}">>))],
   [defined |-> TRUE,
    vars |-> (<<"i", "d">> :> stringValue(<<>>))]}

ExecActionIds == {"a1", "a2", "a3", "a4", "a9", ""}

ExecArgs(tool) ==
  IF tool = "execute_pica_action"
    THEN {[defaultArgs EXCEPT !.actionId = a, !.headers = h, !.data = d,
                              !.pathVariables = pv, !.queryParams = "page=2",
                              !.isFormData = f[1], !.isFormUrlEncoded = f[2]] :
            a \in ExecActionIds, h \in CallerHeaders,
            d \in CallerData, pv \in CallerPathVariables,
            f \in {<<FALSE, FALSE>>, <<TRUE, FALSE>>, <<FALSE, TRUE>>}}
    ELSE {[defaultArgs EXCEPT !.actionId = a] : a \in ExecActionIds}

InitExec == \E c \in ExecConfigs : start(c)

NextExec ==
  \/ /\ inv[1].pc = "idle"
     /\ \E tool \in {"get_pica_action_knowledge", "execute_pica_action"} :
          \E args \in ExecArgs(tool) : Invoke(1, tool, args)
  \/ \E side \in {"conn", "defs"} : FetchPage(1, side)
  \/ Settle(1)
  \/ AwaitInitReturn(1)
  \/ HandleActionStart(1)
  \/ \E outcome \in Outcomes : DetailsResponse(1, outcome)
  \/ \E outcome \in Outcomes : PassthroughResponse(1, outcome)

SpecExec == InitExec /\ [][NextExec]_vars

\* --- SpecScope: connection-key scoping, for every shape of the configured
\* key list: the server's list as parsed from PICA_CONNECTION_KEYS, and a
\* PicaClient constructed without connectionKeys
ScopeEnvs ==
  {unsetEnv,
   [set |-> TRUE, s |-> <<>>],
   [set |-> TRUE, s |-> <<"*">>],
   [set |-> TRUE, s |-> <<"k1">>],
   [set |-> TRUE, s |-> <<"k2">>],
   [set |-> TRUE, s |-> <<" ", "k1", ",", " ", "k2", " ">>],
   [set |-> TRUE, s |-> <<"k2", ",", "*">>],
   [set |-> TRUE, s |-> <<",">>],
   [set |-> TRUE, s |-> <<" ", ",", " ">>]}

ScopeConfigs ==
  [secret : {"sk_1"},
   permissions : {"admin"},
   actionIds : {<<"*">>},
   connectionKeys : {[present |-> TRUE, list |-> PICA_CONNECTION_KEYS(e)] :
                       e \in ScopeEnvs}
                    \cup {[present |-> FALSE, list |-> <<>>]},
   knowledgeAgent : {FALSE}]

InitScope == \E c \in ScopeConfigs : start(c)

NextScope ==
  \/ cfg.connectionKeys.present /\ Invoke(1, "list_pica_integrations", defaultArgs)
  \/ ApiInitialize
  \/ FetchSteps
  \/ AwaitInitReturn(1)
  \/ HandleGetIntegrations(1)

SpecScope == InitScope /\ [][NextScope]_vars

\* --- SpecTools: one invocation of any registered tool, for every shape of
\* PICA_KNOWLEDGE_AGENT; the configuration keeps the value it was read from
KnowledgeEnvs ==
  {unsetEnv,
   [set |-> TRUE, s |-> <<>>],
   [set |-> TRUE, s |-> <<"true">>],
   [set |-> TRUE, s |-> <<"TRUE">>],
   [set |-> TRUE, s |-> <<" ", "true">>],
   [set |-> TRUE, s |-> <<"1">>],
   [set |-> TRUE, s |-> <<"false">>]}

ToolsConfigs ==
  {[secret |-> "sk_1", permissions |-> "admin", actionIds |-> <<"*">>,
    connectionKeys |-> [present |-> TRUE, list |-> <<"*">>],
    knowledgeAgent |-> PICA_KNOWLEDGE_AGENT(e), knowledgeEnv |-> e] :
     e \in KnowledgeEnvs}

InitTools == \E c \in ToolsConfigs : start(c)

NextTools ==
  \/ \E tool \in AllTools : \E args \in ToolArgs(tool) : Invoke(1, tool, args)
  \/ FetchSteps
  \/ AwaitInitReturn(1)
  \/ HandleGetIntegrations(1)
  \/ HandleActionStart(1)
  \/ \E outcome \in {"ok", "http"} : DetailsResponse(1, outcome)
  \/ \E outcome \in {"ok", "http"} : PassthroughResponse(1, outcome)
  \/ HandleSearchStart(1)
  \/ \E outcome \in {"ok", "http"} :
       SearchResponse(1, outcome, <<summaryOf("a3"), summaryOf("a2")>>)

SpecTools == InitTools /\ [][NextTools]_vars

\* --- SpecPure: the exported helper functions called on their own
PermissionLevels == {"read", "write", "admin"}
PureMethods ==
  {"GET", "get", "Get", "POST", "post", "Post", "PUT", "put", "PATCH", "patch",
   "DELETE", "delete", "Delete", "HEAD", "head", "OPTIONS"}

\* an AvailableAction with the given id and method
availableAction(id, m) ==
  [method |-> m, path |-> <<"/">>, title |-> "t", systemId |-> id]

\* action lists of the search endpoint: up to three actions
PureActionLists ==
  LET ms == {"GET", "get", "post", "Put", "PATCH", "Delete", "head"}
      one == {<<availableAction("a1", m)>> : m \in ms}
      two == {<<availableAction("a1", m1), availableAction("a2", m2)>> :
                m1 \in ms, m2 \in ms}
  IN {<<>>} \cup one \cup two
       \cup {<<availableAction("a1", "DELETE"), availableAction("a2", "Get"),
               availableAction("a3", "POST")>>}

AllowlistEnvs ==
  {unsetEnv,
   [set |-> TRUE, s |-> <<>>],
   [set |-> TRUE, s |-> <<"*">>],
   [set |-> TRUE, s |-> <<"a1">>],
   [set |-> TRUE, s |-> <<"a1", ",", " ", "a2">>],
   [set |-> TRUE, s |-> <<"a2", ",", "*">>],
   [set |-> TRUE, s |-> <<",">>]}
PureActionIds == {"a1", "a2", "A1", "a9", "*", ""}

\* a path template is a sequence of segments: literal text, or a token
\* {name} (n = 1) or {{name}} (n = 2), the name optionally padded with blanks
literal(cs) == [kind |-> "lit", cs |-> cs, n |-> 0, pad |-> FALSE]
token(n, name, pad) == [kind |-> "tok", cs |-> name, n |-> n, pad |-> pad]

\* the template string of a segment sequence
RECURSIVE templateOf(_)
templateOf(segs) ==
  IF Len(segs) = 0 THEN <<>>
  ELSE LET g == Head(segs)
           name == IF g.pad THEN <<" ">> \o g.cs \o <<" ">> ELSE g.cs
       IN (IF g.kind = "lit" THEN g.cs
           ELSE [k \in 1..g.n |-> "{"] \o name \o [k \in 1..g.n |-> "}"])
          \o templateOf(Tail(segs))

PathTemplates ==
  {<<>>,
   <<literal(<<"/", "u">>)>>,
   <<literal(<<"/", "u", "/">>), token(2, <<"i", "d">>, FALSE)>>,
   <<literal(<<"/", "u", "/">>), token(1, <<"i", "d">>, FALSE), literal(<<"/", "d">>)>>,
   <<token(2, <<"i", "d">>, TRUE), literal(<<"/">>), token(1, <<"x">>, TRUE)>>,
   <<token(1, <<"x">>, FALSE), token(2, <<"i", "d">>, FALSE)>>,
   <<token(1, <<"x">>, FALSE), token(1, <<"x">>, FALSE)>>,
   <<literal(<<"/">>), token(2, <<"x">>, FALSE), token(2, <<"i", "d">>, FALSE),
     literal(<<"/">>), token(1, <<"i", "d">>, FALSE)>>}

PathValues ==
  {stringValue(<<"a", "b">>), stringValue(<<"a", " ", "/", "{", "x", "}">>),
   stringValue(<<"{", "x", "}">>), stringValue(<<"{", "{", "x", "}", "}">>),
   stringValue(<<"x">>),
   stringValue(<<>>), stringValue(<<"0">>), numberValue(0), numberValue(12),
   booleanValue(FALSE), booleanValue(TRUE), nullValue, undefinedValue}

\* templates with a placeholder inside the braces of another one
NestedTemplates ==
  {<<"{", " ", "{", "{", "i", "d", "}", "}", " ", "}">>,
   <<"/", "u", "/", "{", " ", "{", "{", "i", "d", "}", "}", "}">>}

\* variables objects over the names id and x; a name may be left out
PathVariables ==
  LET names == {<<"i", "d">>, <<"x">>}
  IN UNION {[d -> PathValues] : d \in SUBSET names}

\* ids getActionDetails is called with: known, with two rows, unknown, blank
LookupActionIds == {"a1", "a5", "a9", "", " "}

call(name, in) == [pc |-> "call", name |-> name, in |-> in, out |-> <<>>]

InitPure ==
  /\ cfg = CHOOSE c \in ServerConfigs : TRUE
  /\ picaInitialized = FALSE
  /\ initializationPromise = null
  /\ promises = <<>>
  /\ isInitialized = FALSE
  /\ connections = <<>>
  /\ connectors = <<>>
  /\ ops = <<>>
  /\ inv = [i \in 1..MaxInv |-> idleInvocation]
  /\ pg = idlePg
  /\ \/ \E m \in PureMethods, l \in PermissionLevels :
          fn = call("isMethodAllowed", [method |-> m, level |-> l])
     \/ \E as \in PureActionLists, l \in PermissionLevels :
          fn = call("filterByPermissions", [actions |-> as, level |-> l])
     \/ \E id \in PureActionIds, e \in AllowlistEnvs :
          fn = call("isActionAllowed",
                    [actionId |-> id, allowlist |-> PICA_ACTION_IDS(e)])
     \/ \E segs \in PathTemplates, variables \in PathVariables :
          fn = call("replacePathVariables",
                    [segs |-> segs, path |-> templateOf(segs),
                     variables |-> variables])
     \/ \E path \in NestedTemplates, variables \in PathVariables :
          fn = call("replacePathVariables",
                    [segs |-> <<>>, path |-> path, variables |-> variables])
     \/ \E id \in LookupActionIds :
          fn = call("getActionDetails", [actionId |-> id])

NextPure ==
  \/ CallIsMethodAllowed
  \/ CallFilterByPermissions
  \/ CallIsActionAllowed
  \/ CallReplacePathVariables
  \/ CallGetActionDetails

SpecPure == InitPure /\ [][NextPure]_vars

\* --- SpecSearch: one invocation of the search tool, over the permission
\* levels, allowlists and modes, against an upstream that answers with the
\* first `limit` of the actions that match
SearchConfigs ==
  [secret : {"sk_1"},
   permissions : {"read", "write", "admin"},
   actionIds : {<<"*">>, <<"a1", "a4">>, <<>>},
   connectionKeys : {[present |-> TRUE, list |-> <<"*">>]},
   knowledgeAgent : {FALSE, TRUE}]

SearchArgs ==
  {[defaultArgs EXCEPT !.platform = p, !.query = q, !.agentType = t] :
     p \in {"gmail", ""}, q \in {"send", " "},
     t \in {"none", "execute", "knowledge"}}

\* what the upstream holds for a search, in its order of relevance
UpstreamMatches ==
  {<<>>,
   <<availableAction("a2", "post"), availableAction("a4", "Get"),
     availableAction("a1", "PATCH")>>,
   <<availableAction("a1", "get"), availableAction("a2", "POST"),
     availableAction("a3", "delete"), availableAction("a4", "PUT"),
     availableAction("a1", "Delete"), availableAction("a4", "GET"),
     availableAction("a2", "get")>>}

\* the number the limit parameter of a search request spells
limitOf(request) == IF request.limit = "5" THEN 5 ELSE 0

\* an upstream that honours the limit parameter of the request
honestSearch(matches, request) ==
  SubSeq(matches, 1, Min(limitOf(request), Len(matches)))

InitSearch == \E c \in SearchConfigs : start(c)

NextSearch ==
  \/ \E args \in SearchArgs : Invoke(1, "search_pica_platform_actions", args)
  \/ FetchSteps
  \/ AwaitInitReturn(1)
  \/ HandleSearchStart(1)
  \/ /\ inv[1].pc = "awaitSearch"
     /\ \E outcome \in Outcomes, matches \in UpstreamMatches :
          SearchResponse(1, outcome, honestSearch(matches, inv[1].sent[1]))

SpecSearch == InitSearch /\ [][NextSearch]_vars

\* --- SpecPaginate: paginateResults on its own, against a truthful upstream
\* and against an arbitrary fetchFn
PgStarts ==
  {[idlePg EXCEPT !.pc = "call", !.mode = m, !.upTotal = t, !.p = paginateInit(l)] :
     m \in {"honest", "any"}, t \in PgTotals, l \in PgLimits}

InitPaginate ==
  /\ cfg = CHOOSE c \in ServerConfigs : TRUE
  /\ picaInitialized = FALSE
  /\ initializationPromise = null
  /\ promises = <<>>
  /\ isInitialized = FALSE
  /\ connections = <<>>
  /\ connectors = <<>>
  /\ ops = <<>>
  /\ inv = [i \in 1..MaxInv |-> idleInvocation]
  /\ pg \in {s \in PgStarts : s.mode = "honest" \/ s.upTotal = 0}
  /\ fn = idleFn

NextPaginate ==
  \/ PgCall
  \/ PgHonestPage
  \/ \E n \in PgAnyRows, totalCount \in PgAnyTotals : PgAnyPage(n, totalCount)
  \/ PgFail

SpecPaginate == InitPaginate /\ [][NextPaginate]_vars

\* ------------------------------------------------------------------ claims
picaOps == {o \in 1..Len(ops) : ops[o].origin = "pica"}

\* C1: however many tool invocations call initializePica() before the
\* initialization has completed, picaClient.initialize() is started at most
\* once: one promise is created and stored, it belongs to the one operation
\* in flight, and every waiting invocation awaits that stored promise.
C1_SingleInitialization ==
  /\ Cardinality({o \in picaOps : ~ops[o].settled}) <= 1
  /\ ~picaInitialized => Cardinality(picaOps) <= 1
  /\ \A p \in 1..Len(promises) :
       Cardinality({o \in picaOps : ops[o].promise = p}) = 1
  /\ \A i \in 1..MaxInv :
       inv[i].pc = "awaitInit" =>
         /\ inv[i].awaiting = initializationPromise
         /\ \E o \in picaOps : ops[o].promise = inv[i].awaiting

\* two invocations wait on the same pending promise of the only initialization
C1_Witness ==
  \E i, j \in 1..MaxInv :
    /\ i # j
    /\ inv[i].pc = "awaitInit" /\ inv[j].pc = "awaitInit"
    /\ inv[i].awaiting = inv[j].awaiting
    /\ promises[inv[i].awaiting] = "pending"
    /\ Cardinality(picaOps) = 1

passthroughsSent(i) ==
  {k \in 1..Len(inv[i].sent) : inv[i].sent[k].kind = "passthrough"}

\* C2: every passthrough request that is sent carries the header
\* x-pica-secret equal to the configured secret, whatever headers the caller
\* supplied.
C2_SecretHeaderNeverOverridden ==
  \A i \in 1..MaxInv : \A k \in passthroughsSent(i) :
    inv[i].sent[k].config.headers["x-pica-secret"] = cfg.secret

\* the allowlist has no "*" and no exact match for the id
notAllowlisted(actionId) ==
  "*" \notin Range(cfg.actionIds) /\ actionId \notin Range(cfg.actionIds)

\* C3: an invocation of the knowledge or the execute tool whose actionId the
\* allowlist does not admit never sends an upstream request of its own (no
\* details lookup, no passthrough) and ends as a failure.
C3_RejectBeforeUpstream ==
  \A i \in 1..MaxInv :
    (/\ inv[i].tool \in {"get_pica_action_knowledge", "execute_pica_action"}
     /\ notAllowlisted(inv[i].args.actionId))
    => /\ inv[i].sent = <<>>
       /\ inv[i].pc \in {"awaitInit", "ready", "failed"}

\* the execute tool has rejected an id outside the allowlist without a request
C3_Witness ==
  \E i \in 1..MaxInv :
    /\ inv[i].tool = "execute_pica_action"
    /\ notAllowlisted(inv[i].args.actionId)
    /\ inv[i].pc = "failed"
    /\ inv[i].err[1].cause = "InvalidRequest"
    /\ inv[i].sent = <<>>

\* the method set of a permission level
methodInLevel(method, level) ==
  \/ level = "admin"
  \/ level = "read" /\ toUpperCase(method) \in {"GET"}
  \/ level = "write" /\ toUpperCase(method) \in {"GET", "POST", "PUT", "PATCH"}

\* C4: the execute handler sends a passthrough request only after the
\* details lookup and only if the fetched method is allowed at the configured
\* level; with a method that is not allowed it has sent exactly the one
\* lookup and has failed without a passthrough request.
C4_MethodCheckedBeforePassthrough ==
  \A i \in 1..MaxInv :
    inv[i].tool = "execute_pica_action" =>
      /\ \A k \in passthroughsSent(i) :
           /\ k = 2 /\ inv[i].sent[1].kind = "details"
           /\ inv[i].details # <<>>
           /\ methodInLevel(inv[i].details[1].method, cfg.permissions)
      /\ (/\ inv[i].details # <<>>
          /\ ~methodInLevel(inv[i].details[1].method, cfg.permissions))
         => /\ inv[i].pc = "failed"
            /\ Len(inv[i].sent) = 1 /\ inv[i].sent[1].kind = "details"

\* a POST/DELETE action was looked up under a level that forbids it
C4_Witness ==
  \E i \in 1..MaxInv :
    /\ inv[i].tool = "execute_pica_action"
    /\ inv[i].details # <<>>
    /\ ~methodInLevel(inv[i].details[1].method, cfg.permissions)
    /\ inv[i].pc = "failed"
    /\ inv[i].err[1].cause = "InvalidRequest"
    /\ Len(inv[i].sent) = 1

\* C5: on success the returned requestConfig is the config that was sent
\* with only the header x-pica-secret replaced by the marker, and the config
\* that was sent is the config as built: sanitizing did not modify it.
C5_SanitizedEcho ==
  \A i \in 1..MaxInv :
    (inv[i].tool = "execute_pica_action" /\ inv[i].pc = "done") =>
      LET sentConfig == inv[i].sent[Len(inv[i].sent)].config
          returned == inv[i].result[1].requestConfig
      IN /\ returned.url = sentConfig.url
         /\ returned.method = sentConfig.method
         /\ returned.params = sentConfig.params
         /\ returned.data = sentConfig.data
         /\ \A h \in HeaderNames \ {"x-pica-secret"} :
              returned.headers[h] = sentConfig.headers[h]
         /\ returned.headers["x-pica-secret"] = REDACTED
         /\ sentConfig = inv[i].built[1].built

\* a successful execution with an extra caller header and a body
C5_Witness ==
  \E i \in 1..MaxInv :
    /\ inv[i].tool = "execute_pica_action" /\ inv[i].pc = "done"
    /\ inv[i].args.headers["x-extra"] = "1"
    /\ inv[i].sent[2].config.data.defined
    /\ inv[i].sent[2].config.headers["x-pica-secret"] = cfg.secret
    /\ inv[i].result[1].requestConfig.headers["x-extra"] = "1"

C7_Step ==
  /\ picaInitialized => picaInitialized'
  /\ isInitialized => isInitialized'
  /\ (/\ isInitialized
      /\ Len(ops') = Len(ops) + 1
      /\ ops'[Len(ops')].kind = "init")
     => /\ ops'[Len(ops')].conn.reqs = <<>>
        /\ ops'[Len(ops')].defs.reqs = <<>>
        /\ connections' = connections /\ connectors' = connectors
  /\ \A o \in 1..Len(ops) :
       (ops[o].kind = "init" /\ ops[o].afterInit) =>
         /\ ops'[o].conn.reqs = <<>> /\ ops'[o].defs.reqs = <<>>
         /\ (~ops[o].settled /\ ops'[o].settled)
            => connections' = connections /\ connectors' = connectors
  /\ \A i \in 1..MaxInv :
       (picaInitialized /\ inv[i].pc = "idle" /\ inv'[i].pc # "idle")
       => /\ inv'[i].pc = "ready"
          /\ ops' = ops
          /\ connections' = connections /\ connectors' = connectors

\* C7: once set, picaInitialized and isInitialized are never reset; a
\* PicaClient.initialize() call made when isInitialized holds issues no
\* upstream request, then or later, and neither the call nor its completion
\* changes the caches; an initializePica() call made when picaInitialized
\* holds returns at once, starting no operation and changing no cache.
C7_InitializedIsPermanent == [][C7_Step]_vars

\* after the initialization, initialize() was called directly and has
\* returned, and a tool invocation passed initializePica() without waiting
C7_Witness ==
  /\ picaInitialized /\ isInitialized
  /\ \E o \in 1..Len(ops) :
       /\ ops[o].kind = "init" /\ ops[o].origin = "direct"
       /\ ops[o].afterInit /\ ops[o].settled
       /\ ops[o].conn.reqs = <<>> /\ ops[o].defs.reqs = <<>>
  /\ \E i \in 1..MaxInv :
       inv[i].pc \notin {"idle", "awaitInit"} /\ inv[i].awaiting = null

\* C8: when an initialization attempt started by initializePica has failed
\* (both of its fetches failed) the in-flight marker is cleared,
\* picaInitialized stays false and the awaited promise is rejected, so that
\* a later initializePica() starts a fresh attempt.
C8_FailedInitializationRetries ==
  \A o \in picaOps :
    (ops[o].settled /\ ops[o].conn.st = "fail" /\ ops[o].defs.st = "fail")
    => /\ initializationPromise = null
       /\ ~picaInitialized
       /\ promises[ops[o].promise] = "rejected"

\* operations with a paged fetch in flight that will assign a cache
cacheWriters ==
  {o \in 1..Len(ops) : ops[o].conn.st = "run" \/ ops[o].defs.st = "run"}

\* C9: at any time at most one initialize/refresh operation has paged
\* fetches in flight that assign this.connections or this.connectors.
C9_SingleCacheWriter == Cardinality(cacheWriters) <= 1

\* rows of the first k pages paginateResults has received, in request order
pagesConcat(k) ==
  LET acc[j \in 0..Len(pg.pages)] ==
        IF j = 0 THEN <<>> ELSE acc[j - 1] \o pg.pages[j].rows
  IN acc[k]

\* C10: paginateResults requests the pages at skip 0, limit, 2*limit, ...;
\* it goes on exactly while the rows accumulated so far are fewer than the
\* total of the most recent page, and returns the concatenation in request
\* order of the rows of every page it fetched; against 250 rows with limit
\* 100 it issues the three requests skip 0, 100, 200 and returns the 250
\* rows in order.
C10_PaginateConcatenates ==
  LET n == Len(pg.pages) IN
  /\ \A k \in 1..Len(pg.requests) :
       pg.requests[k] = [skip |-> (k - 1) * pg.p.limit, limit |-> pg.p.limit]
  /\ pg.pc = "wait" =>
       /\ Len(pg.requests) = n + 1
       /\ \A k \in 1..n : Len(pagesConcat(k)) < pg.pages[k].total
  /\ pg.pc = "done" =>
       /\ n >= 1 /\ Len(pg.requests) = n
       /\ pg.result = pagesConcat(n)
       /\ Len(pagesConcat(n)) >= pg.pages[n].total
       /\ \A k \in 1..(n - 1) : Len(pagesConcat(k)) < pg.pages[k].total
  /\ (pg.pc = "done" /\ pg.mode = "honest" /\ pg.upTotal = 250 /\ pg.p.limit = 100)
     => /\ pg.requests = <<[skip |-> 0, limit |-> 100], [skip |-> 100, limit |-> 100],
                           [skip |-> 200, limit |-> 100]>>
        /\ pg.result = seqOf(1, 250)

\* the 250-row example has completed in three pages of 100, 100 and 50 rows
C10_Witness ==
  /\ pg.pc = "done" /\ pg.mode = "honest"
  /\ pg.upTotal = 250 /\ pg.p.limit = 100
  /\ Len(pg.pages) = 3
  /\ Len(pg.pages[1].rows) = 100 /\ Len(pg.pages[2].rows) = 100
  /\ Len(pg.pages[3].rows) = 50
  /\ Len(pg.result) = 250

\* the cache a fetch side fills
cacheOf(side) == IF side = "conn" THEN connections ELSE connectors

\* C11: a page fetch that fails makes the whole paged fetch fail, however
\* many pages it had collected: the cache it fills is emptied and is never
\* assigned the rows accumulated before the failure; a cache holds rows only
\* from a fetch that ran to its end, and then all of them.
C11_NoPartialResults ==
  \A o \in 1..Len(ops) : \A side \in {"conn", "defs"} :
    /\ ops[o][side].st = "fail" => cacheOf(side) = <<>>
    /\ ops[o][side].st = "run" => cacheOf(side) = <<>>
    /\ cacheOf(side) # <<>> =>
         /\ ops[o][side].st = "ok"
         /\ cacheOf(side) = data(side, ops[o][side].params)

\* the connections fetch failed on its second page, with the 100 rows of the
\* first page collected, while the catalog fetch is still running
C11_Witness ==
  \E o \in 1..Len(ops) :
    /\ ops[o].conn.st = "fail"
    /\ Len(ops[o].conn.p.allResults) = DefaultLimit
    /\ Len(ops[o].conn.reqs) = 2
    /\ ops[o].defs.st = "run"
    /\ ~ops[o].settled
    /\ connections = <<>>

\* the fetchConnections calls made so far: the connections side of every
\* operation that did not return at the first line of initialize()
connectionFetches == {o \in 1..Len(ops) : ops[o].conn.st # "skip"}

\* C12: with "*" in the configured key list, or no list, fetchConnections
\* sends no key parameter and fetches all connections; with a non-empty list
\* without "*" its requests carry key = the configured keys joined by commas
\* and it fetches only connections of those keys; with a present, empty list
\* it makes no request and the connections cache is empty.
C12_ConnectionKeyScoping ==
  LET keys == cfg.connectionKeys.list
      wildcard == ~cfg.connectionKeys.present \/ "*" \in Range(keys)
  IN \A o \in connectionFetches :
       LET f == ops[o].conn IN
       /\ wildcard =>
            /\ ~f.params.hasKey
            /\ f.reqs # <<>>
            /\ f.st = "ok" => f.p.allResults = seqOf(1, UpConnTotal)
       /\ (~wildcard /\ Len(keys) > 0) =>
            /\ f.params.hasKey
            /\ Len(f.params.key) = 2 * Len(keys) - 1
            /\ \A k \in 1..Len(keys) : f.params.key[2 * k - 1] = keys[k]
            /\ \A k \in 1..(Len(keys) - 1) : f.params.key[2 * k] = ","
            /\ f.reqs # <<>>
            /\ \A k \in 1..Len(f.p.allResults) :
                 ConnKey(f.p.allResults[k]) \in Range(keys)
       /\ (~wildcard /\ Len(keys) = 0) =>
            /\ f.reqs = <<>>
            /\ f.st = "ok"
            /\ connections = <<>>

\* a fetch scoped to the keys k1 and k2 (PICA_CONNECTION_KEYS=" k1, k2 ") has
\* filled the cache with the connections of exactly these keys
C12_Witness ==
  \E o \in connectionFetches :
    /\ cfg.connectionKeys.list = <<"k1", "k2">>
    /\ ops[o].conn.params.key = <<"k1", ",", "k2">>
    /\ ops[o].conn.st = "ok"
    /\ connections = <<1, 2>>

\* an empty list (PICA_CONNECTION_KEYS=",") made no connections request
C12_WitnessEmpty ==
  \E o \in connectionFetches :
    /\ cfg.connectionKeys.present /\ cfg.connectionKeys.list = <<>>
    /\ ops[o].settled /\ ops[o].conn.reqs = <<>> /\ ops[o].defs.st = "ok"
    /\ connections = <<>> /\ connectors # <<>>

\* the spellings of the methods a level allows
ReadSpellings == {"GET", "get", "Get"}
WriteSpellings ==
  ReadSpellings \cup {"POST", "post", "Post", "PUT", "put", "PATCH", "patch"}

\* the claim's rule: admin all, read GET, write GET/POST/PUT/PATCH, in any case
allowedAtLevel(method, level) ==
  \/ level = "admin"
  \/ level = "read" /\ method \in ReadSpellings
  \/ level = "write" /\ method \in WriteSpellings

C14_ActionAllowlist ==
  (fn.pc = "done" /\ fn.name = "isActionAllowed") =>
    LET list == fn.in.allowlist IN
    /\ fn.out[1] = (\E k \in 1..Len(list) : list[k] = "*" \/ list[k] = fn.in.actionId)
    /\ list = <<"*">> => fn.out[1]
    /\ list = <<>> => ~fn.out[1]

\* an id the list does not hold is admitted by a wildcard entry
C14_Witness ==
  /\ fn.pc = "done" /\ fn.name = "isActionAllowed"
  /\ fn.in.allowlist = <<"a2", "*">>
  /\ fn.in.actionId = "a9"
  /\ fn.out[1]

\* the value the variables object holds for a token, and whether it counts
\* as missing: undefined (also by absence), null or the empty string
valueFor(variables, g) ==
  IF g.cs \in DOMAIN variables THEN variables[g.cs] ELSE undefinedValue
isMissing(v) == v = undefinedValue \/ v = nullValue \/ v = stringValue(<<>>)

\* the resolved path the claim expects for a template
RECURSIVE expectedPath(_, _)
expectedPath(segs, variables) ==
  IF Len(segs) = 0 THEN <<>>
  ELSE (IF Head(segs).kind = "lit" THEN Head(segs).cs
        ELSE encodeURIComponent(valueToString(valueFor(variables, Head(segs)))))
       \o expectedPath(Tail(segs), variables)

\* C15: replacePathVariables fails exactly when a variable the template
\* refers to is undefined, null or "", and then names such a variable;
\* otherwise it returns the template with every {{name}} and {name} token
\* replaced by the percent-encoded string of its value, 0 and false being
\* values like any other, substituted as "0" and "false".
C15_ReplacePathVariables ==
  (fn.pc = "done" /\ fn.name = "replacePathVariables"
   /\ fn.in.path = templateOf(fn.in.segs)) =>
    LET segs == fn.in.segs
        variables == fn.in.variables
        tokens == {k \in 1..Len(segs) : segs[k].kind = "tok"}
        missing == {k \in tokens : isMissing(valueFor(variables, segs[k]))}
        out == fn.out[1]
    IN /\ out.ok = (missing = {})
       /\ ~out.ok => \E k \in missing : out.missing = segs[k].cs
       /\ out.ok => out.s = expectedPath(segs, variables)
       /\ (out.ok /\ segs = <<literal(<<"/", "u", "/">>), token(2, <<"i", "d">>, FALSE)>>)
          => /\ variables[<<"i", "d">>] = numberValue(0)
                => out.s = <<"/", "u", "/", "0">>
             /\ variables[<<"i", "d">>] = booleanValue(FALSE)
                => out.s = <<"/", "u", "/", "f", "a", "l", "s", "e">>

\* a padded {{ id }} and a padded { x } were replaced by "false" and "0"
C15_Witness ==
  /\ fn.pc = "done" /\ fn.name = "replacePathVariables"
  /\ fn.in.path = <<"{", "{", " ", "i", "d", " ", "}", "}", "/", "{", " ", "x", " ", "}">>
  /\ fn.out[1].ok
  /\ fn.in.variables[<<"i", "d">>] = booleanValue(FALSE)
  /\ fn.in.variables[<<"x">>] = numberValue(0)
  /\ fn.out[1].s = <<"f", "a", "l", "s", "e", "/", "0">>

\* ------------------------------------------------------------------ C16
\* the spellings of GET the catalog uses
GetSpellings == {"GET", "get", "Get"}

\* a caller's field as the encoding of the body carries it: a form carries
\* the string of the value, JSON the value
asSent(enc, v) ==
  IF enc = "json" \/ v = absentValue THEN v ELSE [t |-> "string", s |-> v.s]

\* C16: when the action carries the tag "custom" and its method is not GET,
\* the body sent upstream is the caller's data with the field connectionKey
\* set to the connection key of the call, every other field of the caller's
\* data kept; for a GET action or an action without the tag the connection
\* key is not injected: the field connectionKey of the body is the caller's
\* own, or absent
C16_CustomActionBody ==
  \A i \in 1..MaxInv : \A k \in passthroughsSent(i) :
    LET action == inv[i].details[1]
        args == inv[i].args
        sentData == inv[i].sent[k].config.data
        injected == "custom" \in Range(action.tags) /\ action.method \notin GetSpellings
    IN /\ injected =>
            /\ sentData.defined /\ sentData.prim = ""
            /\ sentData.fields.connectionKey = [t |-> "string", s |-> args.connectionKey]
            /\ \A f \in FieldNames \ {"connectionKey"} :
                 sentData.fields[f] = asSent(sentData.enc, args.data.fields[f])
       /\ ~injected =>
            sentData.fields.connectionKey \in
              {absentValue, asSent(sentData.enc, args.data.fields.connectionKey)}

\* a custom POST action sent with the caller's fields a, c and a connectionKey
\* of the caller's own: a and c arrive, connectionKey is the one of the call
C16_Witness ==
  \E i \in 1..MaxInv : \E k \in passthroughsSent(i) :
    /\ inv[i].details[1]._id = "a2"
    /\ inv[i].args.data.fields.connectionKey = [t |-> "string", s |-> "mine"]
    /\ inv[i].sent[k].config.data.enc = "json"
    /\ inv[i].sent[k].config.data.fields.connectionKey = [t |-> "string", s |-> "k1"]
    /\ inv[i].sent[k].config.data.fields.c = [t |-> "string", s |-> "x"]

\* a non-custom delete action sent with the caller's body as it is
C16_WitnessNoTag ==
  \E i \in 1..MaxInv : \E k \in passthroughsSent(i) :
    /\ inv[i].details[1]._id = "a3"
    /\ inv[i].args.data.fields.a = [t |-> "number", s |-> "1"]
    /\ inv[i].sent[k].config.data.fields.connectionKey = absentValue

\* ------------------------------------------------------------------ C17
\* C17: a request whose action method is GET in any letter case is sent
\* without a body, whatever data, isFormData and isFormUrlEncoded the caller
\* gave
C17_GetHasNoBody ==
  \A i \in 1..MaxInv : \A k \in passthroughsSent(i) :
    inv[i].details[1].method \in GetSpellings =>
      inv[i].sent[k].config.data = [enc |-> "none"] @@ undefinedData

\* an upper-case GET action called with data and isFormData, sent bodiless
C17_Witness ==
  \E i \in 1..MaxInv : \E k \in passthroughsSent(i) :
    /\ inv[i].details[1].method = "GET"
    /\ inv[i].args.data.defined /\ inv[i].args.isFormData
    /\ ~inv[i].sent[k].config.data.defined

\* a lower-case get action with the custom tag, sent bodiless
C17_WitnessCustom ==
  \E i \in 1..MaxInv : \E k \in passthroughsSent(i) :
    /\ inv[i].details[1].method = "get"
    /\ "custom" \in Range(inv[i].details[1].tags)
    /\ inv[i].args.data.defined
    /\ ~inv[i].sent[k].config.data.defined

\* ------------------------------------------------------------------ C18
KnowledgeTools ==
  {"list_pica_integrations", "search_pica_platform_actions",
   "get_pica_action_knowledge"}

\* the tool set the configuration should have registered
expectedTools ==
  IF cfg.knowledgeEnv = [set |-> TRUE, s |-> <<"true">>] THEN KnowledgeTools ELSE AllTools

\* C18: when PICA_KNOWLEDGE_AGENT is "true" the registered tools are exactly
\* list_pica_integrations, search_pica_platform_actions and
\* get_pica_action_knowledge, and execute_pica_action is never invoked; in
\* every other configuration the four tools are registered
C18_KnowledgeOnlyTools ==
  /\ registeredTools(cfg) = expectedTools
  /\ \A i \in 1..MaxInv : inv[i].tool \in expectedTools \cup {"none"}

\* knowledge-only mode: the knowledge tool has served a call
C18_Witness ==
  /\ cfg.knowledgeEnv = [set |-> TRUE, s |-> <<"true">>]
  /\ inv[1].tool = "get_pica_action_knowledge" /\ inv[1].pc = "done"

\* a value that is not "true": the execute tool has served a call
C18_WitnessOtherwise ==
  /\ cfg.knowledgeEnv = [set |-> TRUE, s |-> <<"TRUE">>]
  /\ inv[1].tool = "execute_pica_action" /\ inv[1].pc = "done"

\* ------------------------------------------------------------------ C19
\* invocation i failed inside executePassthroughRequest: the action was
\* resolved and its method permitted, and a plain Error reached the handler
passthroughFailed(i) ==
  /\ inv[i].tool = "execute_pica_action" /\ inv[i].pc = "failed"
  /\ inv[i].details # <<>>
  /\ inv[i].err[1].cause = "Error"

\* the messages a failure of the request may carry, written without the
\* configuration: the status code and text of the answer, the text of a
\* failure without an answer, or the fixed message
fixedFailureMessages ==
  {<<"Failed to execute Pica action: ", "Failed to execute passthrough request",
     ": ", "500", " ", "Server Error">>,
   <<"Failed to execute Pica action: ", "Failed to execute passthrough request",
     ": ", "undefined", " ", "undefined">>,
   <<"Failed to execute Pica action: ", "Failed to execute passthrough request">>}

\* the message of a missing path variable: fixed text, then a name made of
\* characters of the action's path
missingVariableMessage(message, action) ==
  /\ Len(message) > 2
  /\ SubSeq(message, 1, 2) =
       <<"Failed to execute Pica action: ", "Missing value for path variable: ">>
  /\ Range(SubSeq(message, 3, Len(message))) \subseteq Range(action.path)

C19_WitnessMissingVariable ==
  \E i \in 1..MaxInv :
    /\ passthroughFailed(i)
    /\ inv[i].built = <<>>
    /\ missingVariableMessage(inv[i].err[1].msg, inv[i].details[1])

\* ------------------------------------------------------------------ C20
\* the answers list_pica_integrations has returned
integrationsReturned ==
  {i \in 1..MaxInv : inv[i].tool = "list_pica_integrations" /\ inv[i].pc = "done"}

\* C20: list_pica_integrations returns only cached connections that are
\* active and only catalog platforms that are active and not deprecated;
\* when the connection keys do not hold the wildcard every returned platform
\* is the platform of a returned (active, cached) connection; connectedCount
\* and availableCount are the lengths of the two lists
C20_ListIntegrations ==
  \A i \in integrationsReturned :
    LET r == inv[i].result[1]
        returnedConnections == Range(r.connections)
        returnedPlatforms == Range(r.availablePlatforms)
    IN /\ \A c \in returnedConnections : ConnActive(c)
       /\ \A d \in returnedPlatforms : DefActive(d) /\ ~DefDeprecated(d)
       /\ "*" \notin Range(cfg.connectionKeys.list) =>
            \A d \in returnedPlatforms :
              \E c \in returnedConnections : ConnPlatform(c) = DefPlatform(d)
       /\ r.connectedCount = Len(r.connections)
       /\ r.availableCount = Len(r.availablePlatforms)

\* scoped to k2, whose only connection is inactive: nothing is connected and
\* the eligible gmail platform of the cached catalog is not listed
C20_Witness ==
  \E i \in integrationsReturned :
    /\ cfg.connectionKeys.list = <<"k2">>
    /\ connections = <<2>>
    /\ 1 \in Range(connectors)
    /\ inv[i].result[1].connections = <<>>
    /\ inv[i].result[1].availablePlatforms = <<>>
    /\ inv[i].result[1].availableCount = 0

\* scoped to k1: the active gmail connection and the gmail platform
C20_WitnessConnected ==
  \E i \in integrationsReturned :
    /\ cfg.connectionKeys.list = <<"k1">>
    /\ inv[i].result[1].connections = <<1>>
    /\ inv[i].result[1].availablePlatforms = <<1>>
    /\ inv[i].result[1].connectedCount = 1

\* the wildcard: every active connection and every eligible platform, the
\* inactive connection and the deprecated and inactive platforms left out
C20_WitnessWildcard ==
  \E i \in integrationsReturned :
    /\ cfg.connectionKeys.list = <<"*">>
    /\ Len(connections) = UpConnTotal /\ Len(connectors) = UpDefTotal
    /\ inv[i].result[1].connectedCount = UpConnTotal - 1
    /\ 2 \notin Range(inv[i].result[1].connections)
    /\ Range(inv[i].result[1].availablePlatforms) \cap {2, 3} = {}
    /\ 1 \in Range(inv[i].result[1].availablePlatforms)

\* ------------------------------------------------------------------ C21
\* C21: no request is sent whose URL still holds a brace of an unresolved
\* {name} or {{name}} placeholder of the action's path (a brace of a
\* substituted value is percent-encoded, so a brace in the URL is one of the
\* template); a call whose placeholder has no value fails instead
C21_NoUnresolvedPlaceholder ==
  \A i \in 1..MaxInv : \A k \in passthroughsSent(i) :
    Range(inv[i].sent[k].config.url) \cap {"{", "}"} = {}

\* ------------------------------------------------------------------ C22
\* the flag of the client and the guard state of initializePica
guardState == <<isInitialized, picaInitialized, initializationPromise, promises>>

\* one step of the program as C22 allows it
C22_Step ==
  LET guardKept == guardState' = guardState
  IN /\ (Len(ops') = Len(ops) + 1 /\ ops'[Len(ops')].kind = "refresh") =>
          /\ ops'[Len(ops')].conn.st = "run" /\ ops'[Len(ops')].conn.reqs # <<>>
          /\ ops'[Len(ops')].defs.st = "run" /\ ops'[Len(ops')].defs.reqs # <<>>
          /\ guardKept
     /\ \A o \in 1..Len(ops) :
          (ops[o].kind = "refresh" /\ ops'[o] # ops[o]) =>
            /\ guardKept
            /\ ops'[o].settled => ops'[o].outcome = "fulfilled"

\* C22: refresh() starts both paged fetches whether or not the client is
\* initialized, returns normally whatever the two fetches end in, and neither
\* the call nor any of its steps changes isInitialized, picaInitialized or
\* the initialization promise
C22_RefreshIsIndependent == [][C22_Step]_vars

\* a refresh called on an initialized client has returned with both of its
\* fetches failed
C22_Witness ==
  \E o \in 1..Len(ops) :
    /\ ops[o].kind = "refresh" /\ ops[o].afterInit
    /\ ops[o].conn.st = "fail" /\ ops[o].defs.st = "fail"
    /\ ops[o].settled /\ ops[o].outcome = "fulfilled"
    /\ isInitialized /\ picaInitialized

\* a refresh called before any initialization has fetched both collections;
\* the client is still not initialized
C22_WitnessUninitialized ==
  \E o \in 1..Len(ops) :
    /\ ops[o].kind = "refresh" /\ ~ops[o].afterInit
    /\ ops[o].conn.st = "ok" /\ ops[o].defs.st = "ok" /\ ops[o].settled
    /\ Len(connections) = UpConnTotal /\ Len(connectors) = UpDefTotal
    /\ ~isInitialized /\ ~picaInitialized

\* ------------------------------------------------------------------ C23
\* the upstream requests of one kind invocation i has sent
requestsOf(i, kind) == {k \in 1..Len(inv[i].sent) : inv[i].sent[k].kind = kind}

\* invocation i has returned or thrown
finished(i) == inv[i].pc \in {"done", "failed"}

\* the claim as stated: a search or a knowledge call sends at most one
\* request, and every execute call sends exactly one action-details lookup,
\* followed by at most one passthrough request
C23_ExactlyOneLookup ==
  \A i \in 1..MaxInv :
    /\ Cardinality(requestsOf(i, "search")) <= 1
    /\ inv[i].tool = "get_pica_action_knowledge" =>
         Cardinality(requestsOf(i, "details")) <= 1
    /\ (inv[i].tool = "execute_pica_action" /\ finished(i)) =>
         /\ Cardinality(requestsOf(i, "details")) = 1
         /\ Cardinality(requestsOf(i, "passthrough")) <= 1

\* C23: no request is repeated: an invocation sends at most one search
\* request, at most one action-details lookup and at most one passthrough
\* request; a passthrough request is sent only after exactly one lookup,
\* whose answer it reuses; an invocation that has failed sent no request
\* after the failed one
C23_NoRetry ==
  \A i \in 1..MaxInv :
    /\ \A kind \in {"search", "details", "passthrough"} :
         Cardinality(requestsOf(i, kind)) <= 1
    /\ Len(inv[i].sent) <= 2
    /\ requestsOf(i, "passthrough") # {} =>
         /\ inv[i].tool = "execute_pica_action"
         /\ requestsOf(i, "details") = {1} /\ requestsOf(i, "passthrough") = {2}
    /\ inv[i].tool \in {"search_pica_platform_actions", "get_pica_action_knowledge"} =>
         Len(inv[i].sent) <= 1

\* an execute call whose passthrough request failed upstream has ended with
\* an error after one lookup and one passthrough request
C23_Witness ==
  \E i \in 1..MaxInv :
    /\ inv[i].tool = "execute_pica_action" /\ inv[i].pc = "failed"
    /\ Len(inv[i].sent) = 2
    /\ inv[i].sent[1].kind = "details" /\ inv[i].sent[2].kind = "passthrough"
    /\ inv[i].err[1].msg[2] = "Failed to execute passthrough request"

\* a search whose one request failed has ended with an error
C23_WitnessSearch ==
  \E i \in 1..MaxInv :
    /\ inv[i].tool = "search_pica_platform_actions" /\ inv[i].pc = "failed"
    /\ Len(inv[i].sent) = 1 /\ inv[i].sent[1].kind = "search"

\* an execute call rejected by the allowlist has ended without any lookup
C23_WitnessNoLookup ==
  \E i \in 1..MaxInv :
    /\ inv[i].tool = "execute_pica_action" /\ inv[i].pc = "failed"
    /\ inv[i].sent = <<>>

\* ------------------------------------------------------------------ C24
\* C24: getActionDetails fails before any request for an empty or blank id;
\* when the knowledge endpoint answers with zero rows it fails with an error
\* whose message names the action id; when it answers with one or more rows
\* it returns the first row
C24_NotFoundNamesTheAction ==
  (fn.pc = "done" /\ fn.name = "getActionDetails") =>
    LET actionId == fn.in.actionId
        got == fn.out[1]
        rows == knowledgeRows(actionId)
    IN /\ actionId \in {"", " "} => ~got.ok /\ got.requests = <<>>
       /\ (got.response = "ok" /\ rows = <<>>) =>
            ~got.ok /\ actionId \in Range(got.err[1].msg)
       /\ (got.response = "ok" /\ rows # <<>>) =>
            got.ok /\ got.action = <<rows[1]>>

\* ------------------------------------------------------------------ C25
\* the answers the search tool has returned
searchesReturned ==
  {i \in 1..MaxInv : inv[i].tool = "search_pica_platform_actions" /\ inv[i].pc = "done"}

\* the claim's rule for one upstream result
passesBothFilters(a) ==
  /\ allowedAtLevel(a.method, cfg.permissions)
  /\ \E k \in 1..Len(cfg.actionIds) :
       cfg.actionIds[k] = "*" \/ cfg.actionIds[k] = a.systemId

C25_WitnessAll ==
  \E i \in searchesReturned :
    /\ cfg.permissions = "admin" /\ cfg.actionIds = <<"*">>
    /\ inv[i].result[1].count = 5

\* ------------------------------------------------------------------ C26
\* C26: every invocation that fails surfaces a structured McpError with a
\* message, never a plain Error, and a rejection raised as InvalidRequest
\* (action not in the allowlist, method not permitted) surfaces with the
\* code InvalidRequest
C26_RejectionKeepsItsCode ==
  \A i \in 1..MaxInv :
    inv[i].pc = "failed" =>
      /\ inv[i].err[1].code \in {"InternalError", "InvalidRequest"}
      /\ inv[i].err[1].msg # <<>>
      /\ inv[i].err[1].cause = "InvalidRequest" =>
           inv[i].err[1].code = "InvalidRequest"

\* the part of C26 the handlers keep: a failed invocation surfaces an
\* McpError with a message
C26_StructuredErrors ==
  \A i \in 1..MaxInv :
    inv[i].pc = "failed" =>
      /\ inv[i].err[1].code \in {"InternalError", "InvalidRequest"}
      /\ inv[i].err[1].msg # <<>>

\* ------------------------------------------------------------------ C27
\* max(1, ceil(total / limit))
requestsNeeded(total, limit) ==
  IF total = 0 THEN 1 ELSE (total + limit - 1) \div limit

\* the rows received with the first k pages
received(k) == Len(pagesConcat(k))

\* C27: paginateResults sends a first request whatever the total; request
\* k asks for skip = (k - 1) * limit whatever the pages before it held;
\* against a truthful upstream of `total` rows it never sends more than
\* max(1, ceil(total / limit)) requests and returns after exactly that many;
\* it returns only after a page that brings the rows received up to the
\* reported total, and after every page that leaves them below it the next
\* request is sent, so pages that always stay below the total never end it
C27_PaginationRequests ==
  LET n == Len(pg.pages)
      needed == requestsNeeded(pg.upTotal, pg.p.limit)
  IN /\ pg.pc \in {"wait", "done", "failed", "cut"} => Len(pg.requests) >= 1
     /\ \A k \in 1..Len(pg.requests) :
          /\ pg.requests[k].skip = (k - 1) * pg.p.limit
          /\ pg.requests[k].limit = pg.p.limit
     /\ pg.mode = "honest" =>
          /\ Len(pg.requests) <= needed
          /\ pg.pc = "done" => Len(pg.requests) = needed
          /\ pg.pc = "cut" => needed > MaxPgRequests
     /\ pg.pc = "done" => received(n) >= pg.pages[n].total
     /\ \A k \in 1..n :
          received(k) < pg.pages[k].total =>
            \/ Len(pg.requests) > k
            \/ pg.pc = "cut" /\ k = MaxPgRequests

\* a truthful upstream of 5 rows, read with limit 2: three requests, the
\* last page holding one row
C27_Witness ==
  /\ pg.pc = "done" /\ pg.mode = "honest" /\ pg.upTotal = 5 /\ pg.p.limit = 2
  /\ Len(pg.requests) = 3 /\ pg.requests[3].skip = 4
  /\ Len(pg.pages[3].rows) = 1

\* a truthful upstream without rows: one request, then the empty result
C27_WitnessEmpty ==
  /\ pg.pc = "done" /\ pg.mode = "honest" /\ pg.upTotal = 0
  /\ Len(pg.requests) = 1 /\ pg.result = <<>>

\* an upstream that reports a total of 3 and only sends empty pages: after
\* every page the next request left, up to the bound of the model
C27_WitnessEndless ==
  /\ pg.mode = "any" /\ pg.pc = "cut"
  /\ Len(pg.pages) = MaxPgRequests
  /\ \A k \in 1..Len(pg.pages) : pg.pages[k].rows = <<>> /\ pg.pages[k].total = 3
  /\ pg.requests[MaxPgRequests].skip = (MaxPgRequests - 1) * pg.p.limit

\* ------------------------------------------------------------------ C28
\* the value has a brace
hasBrace(v) == v.t = "string" /\ Range(v.s) \cap {"{", "}"} # {}

\* the names of the tokens the pattern with n braces finds in cs from i on
RECURSIVE tokenNames(_, _, _)
tokenNames(cs, i, n) ==
  IF i > Len(cs) THEN {}
  ELSE IF matchAt(cs, i, n)
    THEN LET r == runLen(cs, i + n)
         IN {trim(SubSeq(cs, i + n, i + n + r - 1))}
            \cup tokenNames(cs, i + 2 * n + r, n)
    ELSE tokenNames(cs, i + 1, n)

\* the names of the tokens present in the template as it was given
originalTokens(path) == tokenNames(path, 1, 2) \cup tokenNames(path, 1, 1)

\* the variables object without the names outside `names`
restrict(variables, names) ==
  [k \in DOMAIN variables \cap names |-> variables[k]]

\* C28 as stated, for every template: the passes resolve only tokens that
\* were present in the template as it was given, so a variable no such
\* token names has no part in the result
C28_OnlyOriginalTokens ==
  (fn.pc = "done" /\ fn.name = "replacePathVariables") =>
    fn.out[1] = replacePathVariables(fn.in.path,
                  restrict(fn.in.variables, originalTokens(fn.in.path)))

\* C28, for a template made of literal text and placeholders none of which
\* lies inside another: a substituted value is not read as a template: whether the call
\* succeeds depends on the values of the tokens of the template alone, a
\* resolved path has no brace left (the braces of a value arrive as %7B and
\* %7D), and a value {x} or {{x}} is substituted as text, whatever the
\* variable x holds
C28_ValuesAreNotTemplates ==
  (fn.pc = "done" /\ fn.name = "replacePathVariables"
   /\ fn.in.path = templateOf(fn.in.segs)) =>
    LET segs == fn.in.segs
        variables == fn.in.variables
        id == <<"i", "d">>
        tokens == {k \in 1..Len(segs) : segs[k].kind = "tok"}
        missing == {k \in tokens : isMissing(valueFor(variables, segs[k]))}
        out == fn.out[1]
    IN /\ out.ok = (missing = {})
       /\ out.ok => Range(out.s) \cap {"{", "}"} = {}
       /\ out = replacePathVariables(fn.in.path,
                   restrict(variables, originalTokens(fn.in.path)))
       /\ (segs = <<literal(<<"/", "u", "/">>), token(2, id, FALSE)>>
           /\ id \in DOMAIN variables) =>
            /\ variables[id] = stringValue(<<"{", "x", "}">>) =>
                 out.ok /\ out.s = <<"/", "u", "/", "%", "7", "B", "x", "%", "7", "D">>
            /\ variables[id] = stringValue(<<"{", "{", "x", "}", "}">>) =>
                 /\ out.ok
                 /\ out.s = <<"/", "u", "/", "%", "7", "B", "%", "7", "B", "x",
                              "%", "7", "D", "%", "7", "D">>
       /\ (segs = <<literal(<<"/", "u", "/">>), token(1, id, FALSE), literal(<<"/", "d">>)>>
           /\ id \in DOMAIN variables
           /\ variables[id] = stringValue(<<"{", "{", "x", "}", "}">>)) =>
            /\ out.ok
            /\ out.s = <<"/", "u", "/", "%", "7", "B", "%", "7", "B", "x",
                         "%", "7", "D", "%", "7", "D", "/", "d">>

\* {{id}} was given the value {x} while x holds ab: the path carries the
\* encoded text of {x}, not ab
C28_Witness ==
  /\ fn.pc = "done" /\ fn.name = "replacePathVariables"
  /\ fn.in.path = <<"/", "u", "/", "{", "{", "i", "d", "}", "}">>
  /\ fn.out[1].ok
  /\ DOMAIN fn.in.variables = {<<"i", "d">>, <<"x">>}
  /\ fn.in.variables[<<"i", "d">>] = stringValue(<<"{", "x", "}">>)
  /\ fn.in.variables[<<"x">>] = stringValue(<<"a", "b">>)
  /\ fn.out[1].s = <<"/", "u", "/", "%", "7", "B", "x", "%", "7", "D">>

\* the template { {{id}} } with id = x and x = ab: the first pass leaves
\* { x }, which the second pass resolves to ab
C28_WitnessNested ==
  /\ fn.pc = "done" /\ fn.name = "replacePathVariables"
  /\ fn.in.path = <<"{", " ", "{", "{", "i", "d", "}", "}", " ", "}">>
  /\ DOMAIN fn.in.variables = {<<"i", "d">>, <<"x">>}
  /\ fn.in.variables[<<"i", "d">>] = stringValue(<<"x">>)
  /\ fn.in.variables[<<"x">>] = stringValue(<<"a", "b">>)
  /\ fn.out[1].ok /\ fn.out[1].s = <<"a", "b">>

\* {{id}} was given the value {x} and there is no variable x: the call
\* succeeds
C28_WitnessNoOther ==
  /\ fn.pc = "done" /\ fn.name = "replacePathVariables"
  /\ fn.in.path = <<"/", "u", "/", "{", "{", "i", "d", "}", "}">>
  /\ DOMAIN fn.in.variables = {<<"i", "d">>}
  /\ hasBrace(fn.in.variables[<<"i", "d">>])
  /\ fn.out[1].ok

\* ------------------------------------------------------------------ C29
\* the other fetch side
otherSide(side) == IF side = "conn" THEN "defs" ELSE "conn"

\* the cache of `side` holds the complete result of a finished fetch
holdsCompleteFetch(side) ==
  \E o \in 1..Len(ops) :
    /\ ops[o][side].st = "ok"
    /\ cacheOf(side) = ops[o][side].p.allResults
    /\ cacheOf(side) = data(side, ops[o][side].params)

\* one step, as C29 allows it: a fetch that fails empties its own cache,
\* whatever was cached, and leaves the other cache alone; a cache changes
\* only to empty, on a failed fetch of its side, or to all the rows of a
\* fetch of its side that finishes in this step
C29_Step ==
  \A side \in {"conn", "defs"} :
    /\ \A o \in 1..Len(ops) :
         (ops[o][side].st = "run" /\ ops'[o][side].st = "fail") =>
           /\ cacheOf(side)' = <<>>
           /\ cacheOf(otherSide(side))' = cacheOf(otherSide(side))
    /\ cacheOf(side)' # cacheOf(side) =>
         \/ /\ cacheOf(side)' = <<>>
            /\ \E o \in 1..Len(ops) : ops'[o][side].st = "fail"
         \/ \E o \in 1..Len(ops) :
              /\ ops[o][side].st = "run" /\ ops'[o][side].st = "ok"
              /\ cacheOf(side)' = ops'[o][side].p.allResults
              /\ cacheOf(side)' = data(side, ops[o][side].params)

\* C29: a refresh() or initialize() whose fetch fails replaces the cache of
\* that side by the empty collection, whatever it held, and the cache of the
\* other side changes only by its own fetch; at every moment each cache is
\* empty or holds the complete result of one finished paged fetch, never the
\* pages collected by a fetch that is running or has failed.
C29_EmptyOrComplete ==
  /\ [](\A side \in {"conn", "defs"} :
          cacheOf(side) = <<>> \/ holdsCompleteFetch(side))
  /\ [][C29_Step]_vars

\* after an initialization that filled both caches, the connections fetch of
\* a refresh() failed on its second page: the connections cache is empty,
\* the catalog cache holds the rows of the refresh's own finished fetch
C29_Witness ==
  /\ Len(ops) = 2
  /\ ops[1].kind = "init" /\ ops[1].settled
  /\ ops[1].conn.st = "ok" /\ ops[1].defs.st = "ok"
  /\ ops[2].kind = "refresh" /\ ops[2].afterInit
  /\ ops[2].conn.st = "fail" /\ Len(ops[2].conn.p.allResults) = DefaultLimit
  /\ ops[2].defs.st = "ok"
  /\ connections = <<>>
  /\ connectors = ops[2].defs.p.allResults /\ connectors # <<>>

\* a refresh() is fetching its second page of connections while the cache
\* still holds all the connections of the initialization
C29_WitnessRunning ==
  /\ Len(ops) = 2
  /\ ops[1].kind = "init" /\ ops[1].settled /\ ops[1].conn.st = "ok"
  /\ ops[2].kind = "refresh"
  /\ ops[2].conn.st = "run" /\ Len(ops[2].conn.p.allResults) = DefaultLimit
  /\ Len(connections) = UpConnTotal

\* ------------------------------------------------------------------ C30
\* the callback of invocation i is past `await initializePica()`
pastInitialization(i) == inv[i].pc \notin {"idle", "awaitInit"}

\* the initialization started by initializePica has settled, both of its
\* fetches included
initializationSettled ==
  \E o \in 1..Len(ops) :
    /\ ops[o].origin = "pica" /\ ops[o].settled
    /\ ops[o].conn.st \in {"ok", "fail"}
    /\ ops[o].defs.st \in {"ok", "fail"}
    /\ promises[ops[o].promise] # "pending"

\* C30: no tool handler body runs before initialization has settled: an
\* invocation is past `await initializePica()`, and has sent upstream
\* requests or read the caches, only when both init fetches have settled;
\* and when every init fetch eventually settles, every invocation waiting on
\* the initialization eventually proceeds to its handler.
C30_InitializationFirst ==
  /\ [](\A i \in 1..MaxInv :
          /\ pastInitialization(i) => initializationSettled
          /\ inv[i].sent # <<>> => initializationSettled
          /\ inv[i].result # <<>> => initializationSettled)
  /\ \A i \in 1..MaxInv : (inv[i].pc = "awaitInit") ~> (inv[i].pc = "ready")

\* the second invocation arrived while the initialization of the first was
\* in flight, waited on the same promise and is now at its handler
C30_Witness ==
  /\ MaxInv >= 2
  /\ inv[1].awaiting = 1 /\ inv[2].awaiting = 1
  /\ inv[2].pc = "ready"
  /\ Len(ops) = 1 /\ ops[1].settled

\* both invocations wait while the connections fetch of the initialization
\* is on its second page
C30_WitnessWaiting ==
  /\ MaxInv >= 2
  /\ inv[1].pc = "awaitInit" /\ inv[2].pc = "awaitInit"
  /\ Len(ops) = 1 /\ ops[1].conn.st = "run" /\ Len(ops[1].conn.reqs) = 2

====
